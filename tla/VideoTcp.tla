------------------------------ MODULE VideoTcp ------------------------------
(***************************************************************************)
(* One camera's video over TCP: cameraThread of onboard/src/video.cpp with *)
(* its NetworkTcpServer, and cameraThread of video-control/src/video.cpp   *)
(* with its NetworkTcpClient.  A frame is a header and its pixels; it is   *)
(* sent in segments, and TCP hands the viewer any part of what is on its   *)
(* way.  Bytes are counted in units: a unit is <<frame, position>>, its    *)
(* frame and its place in it, the first HeaderLen places being the header. *)
(* Pixels never look like a header.                                        *)
(***************************************************************************)
EXTENDS Integers, SequencesExt

CONSTANTS HeaderLen,     \* units of a header (16 bytes in the code)
          DataLen,       \* units of the pixels of a frame
          Segments,      \* what datalen is divided by (100)
          Window,        \* units that fit between the two ends
          Backlog,       \* connections that wait for accept (listen(server, 3))
          TimeoutLimit,  \* TIMEOUT_LIMIT
          MaxConns,      \* bound: connections ever made
          MaxBreaks,     \* bound: breaks and restarts
          MaxSlips,      \* bound: reads that return part of a header
          MaxSlow        \* bound: pauses of a second on a connection that works

FrameLen == HeaderLen + DataLen
segmentsize == FrameLen \div Segments
numsegments == FrameLen \div segmentsize + 1

\* The sizes of 1280x720 are such: 2764816 and 27648 are multiples of 16.
ASSUME VideoAssumption ==
    /\ HeaderLen \in Nat \ {0} /\ DataLen \in Nat \ {0} /\ Segments \in Nat \ {0}
    /\ DataLen % HeaderLen = 0 /\ segmentsize % HeaderLen = 0 /\ segmentsize > 0
    /\ Window \in Nat /\ Window >= segmentsize
    /\ TimeoutLimit \in Nat /\ MaxConns \in Nat

VARIABLES
    conns,    \* per connection its state and the units on their way to the viewer
    queue,    \* connections the listening socket holds
    srv,      \* the camera thread: pc, client, frame and segment i of it
    running,  \* the flag of onboard/src/main.cpp
    viewer,   \* the viewer's thread
    shown,    \* the units of the frame drawn last
    past,     \* history: skew, the units that reads of headers have thrown away, modulo
              \* HeaderLen; later, whether this frame had a further read; pairs, how many
              \* frames took exactly two reads since one took more (those of one read aside)
    env       \* counts of breaks, slips and pauses, for the bounds
vars == <<conns, queue, srv, running, viewer, shown, past, env>>

ConnIds == 1 .. MaxConns
\* "silent": nothing passes and nobody is told; "closed": by the camera thread;
\* "reset": both ends will be told; "left": by the viewer, who had read everything;
\* "piped": the camera thread has sent to a viewer who left.
ConnStates == {"none", "up", "silent", "closed", "reset", "left", "piped"}
Units == (0 .. 1) \X (0 .. FrameLen - 1)

\* The units of segment i of frame f: min(segmentsize, datalen - segmentsize * i) of them.
Segment(f, i) ==
    LET first == segmentsize * i
        len == IF segmentsize < FrameLen - first THEN segmentsize ELSE FrameLen - first
    IN [k \in 1 .. len |-> <<f, first + k - 1>>]
Header(f) == [k \in 1 .. HeaderLen |-> <<f, k - 1>>]
Pixels(f) == [k \in 1 .. DataLen |-> <<f, HeaderLen + k - 1>>]
\* Mutant of IsHeader: the verification code is not looked at.
AnyHeader(read) == Len(read) = HeaderLen
\* A whole header was read, and its verification code is right.
IsHeader(read) == \E f \in 0 .. 1 : read = Header(f)

Camera == [pc |-> "accepting", client |-> 0, frame |-> 0, i |-> 0]
Connecting == [pc |-> "connecting", conn |-> 0, got |-> <<>>,
               waitingOnRestOfFrame |-> 0, previousDataRemaining |-> 0, timeoutCounter |-> 0]
Init ==
    /\ conns = [c \in ConnIds |-> [state |-> "none", stream |-> <<>>]]
    /\ queue = <<>>
    /\ srv = Camera
    /\ running = TRUE
    /\ viewer = Connecting
    /\ shown = <<>>
    /\ past = [skew |-> 0, later |-> FALSE, pairs |-> 0]
    /\ env = [breaks |-> 0, slips |-> 0, slow |-> 0]

-----------------------------------------------------------------------------
(* The camera thread. *)

Accept ==
    /\ srv.pc = "accepting" /\ queue # <<>>
    /\ srv' = [srv EXCEPT !.pc = "sending", !.client = Head(queue)]
    /\ queue' = Tail(queue)
    /\ UNCHANGED <<conns, running, viewer, shown, past, env>>

\* sendBuffer takes a segment.  A connection that is silent swallows it; a viewer who has
\* left answers it with a reset, which the next send will meet.
SendSegment ==
    LET c == srv.client
        s == Segment(srv.frame, srv.i)
    IN
    /\ srv.pc = "sending" /\ srv.i < numsegments
    /\ \/ /\ conns[c].state = "up"
          /\ Len(conns[c].stream) + Len(s) <= Window
          /\ conns' = [conns EXCEPT ![c].stream = @ \o s]
       \/ /\ conns[c].state = "silent"
          /\ UNCHANGED conns
       \/ /\ conns[c].state = "left"
          /\ conns' = [conns EXCEPT ![c].state = IF s = <<>> THEN "left" ELSE "piped"]
    /\ srv' = [srv EXCEPT !.i = @ + 1]
    /\ UNCHANGED <<queue, running, viewer, shown, past, env>>

\* The state of the other connections after unbindFromPort: those waiting for accept are reset.
Unbound == [c \in ConnIds |->
    IF conns[c].state = "up" /\ c \in ToSet(queue)
    THEN [state |-> "reset", stream |-> <<>>] ELSE conns[c]]

\* sendBuffer fails: unbind, bind, listen, and accept again; the frame then goes on with
\* its next segment.  A broken pipe also raises SIGPIPE, whose handler clears running.
SendFails ==
    /\ srv.pc = "sending" /\ srv.i < numsegments
    /\ conns[srv.client].state \in {"silent", "reset", "piped"}
    /\ running' = (running /\ conns[srv.client].state # "piped")
    /\ conns' = Unbound
    /\ queue' = <<>>
    /\ srv' = [srv EXCEPT !.pc = "accepting", !.client = 0, !.i = @ + 1]
    /\ UNCHANGED <<viewer, shown, past, env>>

\* Mutant of EndFrame: the frame is retrieved once, before the loop.
EndFrameSame ==
    /\ srv.pc = "sending" /\ srv.i = numsegments
    /\ srv' = IF running THEN [srv EXCEPT !.i = 0] ELSE [srv EXCEPT !.pc = "done"]
    /\ UNCHANGED <<conns, queue, running, viewer, shown, past, env>>

\* The end of the for loop: the next frame, or the end of the thread, which closes nothing.
EndFrame ==
    /\ srv.pc = "sending" /\ srv.i = numsegments
    /\ srv' = IF running THEN [srv EXCEPT !.frame = 1 - @, !.i = 0]
                         ELSE [srv EXCEPT !.pc = "done"]
    /\ UNCHANGED <<conns, queue, running, viewer, shown, past, env>>

-----------------------------------------------------------------------------
(* The viewer.  Every read may return less than what is on its way. *)

stream == conns[viewer.conn].stream
connState == conns[viewer.conn].state
Taken(n) == conns' = [conns EXCEPT ![viewer.conn].stream = SubSeq(@, n + 1, Len(@))]
AtMost(a, b) == IF a < b THEN a ELSE b

\* connectToServer succeeds while the server's queue has room; when it fails, the loop tries
\* again.  The port listens from the first acceptClient on, also when the camera thread has
\* ended: nothing closes it but unbindFromPort, which binds and listens again.
Connect ==
    \E c \in ConnIds :
    /\ viewer.pc = "connecting"
    /\ Len(queue) < Backlog
    /\ conns[c].state = "none" /\ \A d \in ConnIds : d < c => conns[d].state # "none"
    /\ conns' = [conns EXCEPT ![c].state = "up"]
    /\ queue' = Append(queue, c)
    /\ viewer' = [Connecting EXCEPT !.pc = "header", !.conn = c]
    /\ past' = [past EXCEPT !.skew = 0]
    /\ UNCHANGED <<srv, running, shown, env>>

\* waitingOnRestOfFrame is 0: read a header, and throw away what is none.  The end of the
\* connection, its failure and a second without data change nothing here.
ReadHeader ==
    /\ viewer.pc = "header"
    /\ \E n \in 1 .. AtMost(HeaderLen, Len(stream)) :
        LET read == SubSeq(stream, 1, n) IN
        /\ Taken(n)
        /\ \/ /\ IsHeader(read)
              /\ viewer' = [viewer EXCEPT !.pc = "first", !.got = <<>>]
              /\ UNCHANGED <<past, env>>
           \/ /\ ~IsHeader(read)
              /\ n < HeaderLen => env.slips < MaxSlips
              /\ env' = [env EXCEPT !.slips = IF n < HeaderLen THEN @ + 1 ELSE @]
              /\ past' = [past EXCEPT !.skew = (@ + n) % HeaderLen]
              /\ UNCHANGED viewer
    /\ UNCHANGED <<queue, srv, running, shown>>

\* What follows when `remaining` units are still to come and `got` have: draw, or wait.
Progress(v, got, remaining) ==
    /\ viewer' = [v EXCEPT !.pc = IF remaining = 0 THEN "header" ELSE "rest",
                           !.got = IF remaining = 0 THEN <<>> ELSE got,
                           !.waitingOnRestOfFrame = remaining]
    /\ shown' = IF remaining = 0 THEN got ELSE shown

\* The first read of the pixels; it returns 0 units at the end of the connection.
ReadFirst ==
    /\ viewer.pc = "first"
    /\ \E n \in 0 .. AtMost(DataLen, Len(stream)) :
        /\ n = 0 => stream = <<>> /\ connState = "closed"
        /\ Taken(n)
        /\ Progress(viewer, SubSeq(stream, 1, n), DataLen - n)
    /\ past' = [past EXCEPT !.later = FALSE]
    /\ UNCHANGED <<queue, srv, running, env>>

\* SO_RCVTIMEO: nothing more comes, or what is on its way is late.
SecondWithoutData ==
    \/ connState = "silent" /\ stream = <<>> /\ UNCHANGED env
    \/ connState = "up" /\ env.slow < MaxSlow /\ env' = [env EXCEPT !.slow = @ + 1]

\* Mutant of FirstTimesOut: a second without data in any read of pixels gives the frame up.
TimesOutAnywhere ==
    /\ viewer.pc \in {"first", "rest"} /\ SecondWithoutData
    /\ viewer' = [viewer EXCEPT !.pc = "header", !.got = <<>>, !.waitingOnRestOfFrame = 0]
    /\ UNCHANGED <<conns, queue, srv, running, shown, past>>

\* A second without data in the first read: receiveBuffer makes no error of it, and as
\* waitingOnRestOfFrame is still 0 the next read is of a header.
FirstTimesOut ==
    /\ viewer.pc = "first" /\ SecondWithoutData
    /\ viewer' = [viewer EXCEPT !.pc = "header"]
    /\ UNCHANGED <<conns, queue, srv, running, shown, past>>

\* recv fails in a read of pixels: out of the loop, to connect again.  The socket is not closed.
ReadFails ==
    /\ viewer.pc \in {"first", "rest"} /\ stream = <<>> /\ connState = "reset"
    /\ viewer' = Connecting
    /\ UNCHANGED <<conns, queue, srv, running, shown, past, env>>

\* Mutants of Lapses: a read that gains something counts too; no read counts.
LapsesAny(remaining) == remaining <= viewer.previousDataRemaining
LapsesNever(remaining) == FALSE

\* A read that leaves the same amount to wait for as the read before counts as a timeout.
Lapses(remaining) == viewer.previousDataRemaining = remaining

\* A further read of the pixels; a second without data changes nothing here.
ReadRest ==
    /\ viewer.pc = "rest"
    /\ \E n \in 0 .. AtMost(viewer.waitingOnRestOfFrame, Len(stream)) :
        LET remaining == viewer.waitingOnRestOfFrame - n
            timeouts == IF Lapses(remaining) THEN viewer.timeoutCounter + 1 ELSE 0
            second == n > 0 /\ remaining = 0 /\ ~past.later
        IN
        /\ n = 0 => stream = <<>> /\ connState = "closed"
        /\ Taken(n)
        /\ past' = [past EXCEPT !.later = TRUE,
                                !.pairs = IF second THEN AtMost(@ + 1, TimeoutLimit + 1) ELSE 0]
        /\ \/ /\ timeouts > TimeoutLimit
              /\ viewer' = Connecting
              /\ UNCHANGED shown
           \/ /\ timeouts <= TimeoutLimit
              /\ Progress([viewer EXCEPT !.previousDataRemaining = remaining,
                                         !.timeoutCounter = timeouts],
                          viewer.got \o SubSeq(stream, 1, n), remaining)
    /\ UNCHANGED <<queue, srv, running, env>>

-----------------------------------------------------------------------------
(* The rest of the world. *)

\* What a connection becomes: s, with a prefix of what is on its way still to come.
Broken(c, s, n) ==
    IF conns[c].state = "up" THEN [state |-> s, stream |-> SubSeq(conns[c].stream, 1, n)]
                             ELSE conns[c]
Breaks == env.breaks < MaxBreaks /\ env' = [env EXCEPT !.breaks = @ + 1]

\* A connection breaks, with a failure at both ends or without a word.
Break ==
    \E c \in ConnIds, s \in {"silent", "reset"} : \E n \in 0 .. Len(conns[c].stream) :
    /\ Breaks
    /\ conns[c].state = "up"
    /\ conns' = [conns EXCEPT ![c] = Broken(c, s, n)]
    /\ UNCHANGED <<queue, srv, running, viewer, shown, past>>

\* The onboard program or its computer starts again: its connections are closed, reset or
\* just no longer there.
OnboardRestarts ==
    \E s \in {"silent", "closed", "reset"}, n \in 0 .. Window :
    /\ Breaks
    /\ conns' = [c \in ConnIds |-> Broken(c, s, AtMost(n, Len(conns[c].stream)))]
    /\ queue' = <<>> /\ srv' = Camera /\ running' = TRUE
    /\ UNCHANGED <<viewer, shown, past>>

\* The viewer's program ends and starts again.  The system closes its sockets, with a reset
\* where something was left to read.
ViewerRestarts ==
    /\ Breaks
    /\ conns' = [c \in ConnIds |->
                    Broken(c, IF conns[c].stream = <<>> THEN "left" ELSE "reset", 0)]
    /\ viewer' = Connecting
    /\ past' = [past EXCEPT !.pairs = 0]
    /\ UNCHANGED <<queue, srv, running, shown>>

CameraThread == Accept \/ SendSegment \/ SendFails \/ EndFrame
Viewer == Connect \/ ReadHeader \/ ReadFirst \/ FirstTimesOut \/ ReadFails \/ ReadRest
Environment == Break \/ OnboardRestarts \/ ViewerRestarts
Next == CameraThread \/ Viewer \/ Environment
Spec == Init /\ [][Next]_vars

\* Both threads keep running, and a connection that is silent fails in the end for the one
\* who sends.
FairSpec == Spec /\ WF_vars(CameraThread) /\ WF_vars(SendFails) /\ WF_vars(Viewer)

-----------------------------------------------------------------------------
(* Properties. *)

\* Type invariant.
TypeOK ==
    /\ \A c \in ConnIds : /\ conns[c].state \in ConnStates
                          /\ \A k \in DOMAIN conns[c].stream : conns[c].stream[k] \in Units
                          /\ Len(conns[c].stream) <= Window
    /\ Len(queue) <= Backlog /\ ToSet(queue) \subseteq ConnIds
    /\ srv.pc \in {"accepting", "sending", "done"} /\ srv.client \in 0 .. MaxConns
    /\ srv.frame \in 0 .. 1 /\ srv.i \in 0 .. numsegments
    /\ viewer.pc \in {"connecting", "header", "first", "rest"}
    /\ viewer.pc = "connecting" <=> viewer.conn = 0
    /\ viewer.waitingOnRestOfFrame \in 0 .. DataLen
    /\ viewer.pc = "rest" <=> viewer.waitingOnRestOfFrame > 0
    /\ viewer.timeoutCounter \in 0 .. TimeoutLimit
    /\ running \in BOOLEAN

\* A frame that is drawn is one frame as it was sent, whatever broke in the middle of
\* another, on this connection or an earlier one.
DrawnWhole == shown # <<>> => \E f \in 0 .. 1 : shown = Pixels(f)

\* The viewer that looks for a header is in step with the frames, up to the units that short
\* reads made it lose: a connection that starts in the middle of a frame, after SendFails,
\* and a frame given up in FirstTimesOut cost frames but not the step.
InStep ==
    viewer.pc = "header" /\ stream # <<>> => (stream[1][2] - past.skew) % HeaderLen = 0

\* The camera thread never fills a connection that works and that the viewer has left for
\* another: with both then waiting for the other for ever.  The viewer gives such a
\* connection up only after TimeoutLimit + 1 frames that took two reads, with no frame of
\* more than two between them: a second read that completes a frame leaves 0, as the frame
\* before did, and is counted.  A frame whose pixels come in one read leaves the count, and
\* what is compared with, as they are (cameraThread, timeoutCounter).  The code counts from
\* 0 on each connection; past.pairs runs on, to be read after the viewer has left.
GivesUpForCause ==
    srv.pc = "sending" /\ conns[srv.client].state = "up" /\ viewer.conn # srv.client
        => past.pairs > TimeoutLimit

\* While a connection holds and the viewer is in step, every frame is drawn again and again.
Attached == /\ srv.pc = "sending" /\ viewer.conn = srv.client
            /\ conns[srv.client].state = "up" /\ past.skew = 0
KeepsDrawing == <>[]Attached => \A f \in 0 .. 1 : []<>(shown = Pixels(f))

\* A viewer whose frame is cut by the end or the failure of its connection gets away from it.
CutReconnects ==
    \A c \in ConnIds :
        /\ viewer.pc = "rest" /\ viewer.conn = c /\ conns[c].state \in {"closed", "reset"}
        /\ Len(conns[c].stream) < viewer.waitingOnRestOfFrame
        ~> viewer.conn # c

\* onboard/src/video.cpp:64 has the camera thread "wait to reconnect": the viewer should leave
\* a connection the camera thread has closed or that has failed.  Read while it waits for
\* a header, neither is noticed.
Reconnects ==
    \A c \in ConnIds :
        viewer.conn = c /\ conns[c].state \in {"closed", "reset"} ~> viewer.conn # c

=============================================================================
