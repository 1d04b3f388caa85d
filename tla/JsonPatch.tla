----------------------------- MODULE JsonPatch -----------------------------
(***************************************************************************)
(* Delta compression of states: DataBucket::compress and inflate of        *)
(* src/telemetry.cpp, on diff and patch of include/robosub/json/json.hpp.  *)
(* Both ends of the websocket skip a state whose delta is empty, and a     *)
(* receiver is meant to apply a delta to the state it got before, which    *)
(* has the time and the round trip that the sender's has not.  A patch is  *)
(* applied one operation per step.  The module is about a delta in the     *)
(* bucket that compress made: inflate begins with a check that the bucket  *)
(* is marked compressed, and one parsed from the wire never is.            *)
(***************************************************************************)
EXTENDS Integers, SequencesExt

CONSTANTS
    States,      \* JSON documents, the states of a bucket
    Unkept,      \* what sentState has and connectionData has not: time and rtt
    Documents,   \* the states, what is sent of them, and every value in them
    Depth,       \* of a document: how deep its values are nested
    Token(_)     \* std::to_string of an index

(* A document is [type, value]: an object's value maps keys to documents, an *)
(* array's is a sequence of them.                                            *)
Object(keys) == [type |-> "object", value |-> keys]
Array(elements) == [type |-> "array", value |-> elements]
IsObject(j) == j.type = "object"
IsArray(j) == j.type = "array"

(* The exception that ends a patch, in place of a document.                 *)
Thrown == [type |-> "exception", value |-> 0]

VARIABLES
    previousState,   \* the sender's state of the last send
    current,         \* the state to send, without time and rtt
    todo,            \* operations of the patch that are not applied yet
    result           \* the receiver's working copy
patchVars == <<previousState, current, todo, result>>

-----------------------------------------------------------------------------
(* References.  A token is a string; in an array it is an index.            *)

(* array_index, for the indexes that occur: at most the array's length.     *)
IsIndex(token, last) == \E i \in 0 .. last : token = Token(i)
array_index(token, last) == CHOOSE i \in 0 .. last : token = Token(i)

HasChild(j, token) ==
    \/ IsObject(j) /\ token \in DOMAIN j.value
    \/ IsArray(j) /\ IsIndex(token, Len(j.value) - 1)

Child(j, token) ==
    IF ~HasChild(j, token) THEN Thrown
    ELSE IF IsObject(j) THEN j.value[token]
    ELSE j.value[array_index(token, Len(j.value) - 1) + 1]

(* get_checked: the values on the way to a pointer, or an exception.        *)
Walk(j, ptr) ==
    LET found[n \in 0 .. Len(ptr)] == IF n = 0 THEN j ELSE Child(found[n - 1], ptr[n])
    IN found
at(j, ptr) == Walk(j, ptr)[Len(ptr)]

SetKey(object, key, val) ==
    Object([k \in DOMAIN object.value \cup {key} |-> IF k = key THEN val ELSE object.value[k]])

WithChild(j, token, val) ==
    IF IsObject(j) THEN SetKey(j, token, val)
    ELSE Array([j.value EXCEPT ![array_index(token, Len(j.value) - 1) + 1] = val])

(* The document with another value at a pointer that is there, from the     *)
(* last token to the first.                                                 *)
Rebuilt(j, ptr, val) ==
    LET from[n \in 0 .. Len(ptr)] ==
            IF n = Len(ptr) THEN val ELSE WithChild(Walk(j, ptr)[n], ptr[n + 1], from[n + 1])
    IN from
With(j, ptr, val) == Rebuilt(j, ptr, val)[0]

(* What an edit of the parent makes of the document.                        *)
Edit(j, ptr, parent) == IF parent = Thrown THEN Thrown ELSE With(j, Front(ptr), parent)

-----------------------------------------------------------------------------
(* patch.  The operations are those that diff makes; move, copy and test    *)
(* never occur, nor does a parent that is missing, which get_unchecked      *)
(* would make.                                                              *)
InsertedAt(array, token, val) ==
    IF ~IsIndex(token, Len(array.value)) THEN Thrown
    ELSE Array(InsertAt(array.value, array_index(token, Len(array.value)) + 1, val))

operation_add(j, ptr, val) ==
    IF ptr = <<>> THEN val
    ELSE LET parent == at(j, Front(ptr)) IN
         Edit(j, ptr, CASE IsObject(parent) -> SetKey(parent, Last(ptr), val)
                        [] IsArray(parent) -> InsertedAt(parent, Last(ptr), val)
                        [] OTHER -> Thrown)

operation_remove(j, ptr) ==
    LET parent == at(j, Front(ptr)) IN
    Edit(j, ptr,
         CASE HasChild(parent, Last(ptr)) /\ IsObject(parent) ->
                  Object([k \in DOMAIN parent.value \ {Last(ptr)} |-> parent.value[k]])
           [] HasChild(parent, Last(ptr)) /\ IsArray(parent) ->
                  Array(RemoveAt(parent.value,
                                 array_index(Last(ptr), Len(parent.value) - 1) + 1))
           [] OTHER -> Thrown)

operation_replace(j, ptr, val) == IF at(j, ptr) = Thrown THEN Thrown ELSE With(j, ptr, val)

Applied(j, operation) ==
    CASE operation.op = "add" -> operation_add(j, operation.path, operation.value)
      [] operation.op = "remove" -> operation_remove(j, operation.path)
      [] operation.op = "replace" -> operation_replace(j, operation.path, operation.value)

-----------------------------------------------------------------------------
(* diff.  Its paths begin at the values that it compares: a caller puts the *)
(* token of the child in front of them, where the code hands its own path   *)
(* down.                                                                    *)
Addition(path, val) == [op |-> "add", path |-> path, value |-> val]
Replacement(path, val) == [op |-> "replace", path |-> path, value |-> val]
Removal(path) == [op |-> "remove", path |-> path]
Below(token, ops) == [i \in DOMAIN ops |-> [ops[i] EXCEPT !.path = <<token>> \o @]]

(* Mutant of RemoveRest: the elements are removed in their order.           *)
RemoveRestInOrder(source, from) ==
    [i \in 1 .. Len(source) - from |-> Removal(<<Token(from + i - 1)>>)]

(* The elements of an array after the first ones, the last one first, as    *)
(* the indexes of the others stay.                                          *)
RemoveRest(source, from) ==
    [i \in 1 .. Len(source) - from |-> Removal(<<Token(Len(source) - i)>>)]
AddRest(target, from) ==
    [i \in 1 .. Len(target) - from |-> Addition(<<Token(from + i - 1)>>, target[from + i])]

(* The common elements, by the calls for them, then the rest.               *)
diffArrays(calls, source, target) ==
    LET common == IF Len(source) < Len(target) THEN Len(source) ELSE Len(target) IN
    FlattenSeq([i \in 1 .. common |-> Below(Token(i - 1), calls[<<source[i], target[i]>>])])
        \o RemoveRest(source, common) \o AddRest(target, common)

(* Keys in the order of the map: any order, as each concerns its own key.   *)
Old(calls, source, target, key) ==
    IF key \in DOMAIN target THEN Below(key, calls[<<source[key], target[key]>>])
    ELSE <<Removal(<<key>>)>>
diffObjects(calls, source, target) ==
    LET keys == SetToSeq(DOMAIN source)
        added == SetToSeq(DOMAIN target \ DOMAIN source)
    IN FlattenSeq([i \in DOMAIN keys |-> Old(calls, source, target, keys[i])])
           \o [i \in DOMAIN added |-> Addition(<<added[i]>>, target[added[i]])]

diffBy(calls, source, target) ==
    CASE source = target -> <<>>
      [] source # target /\ IsArray(source) /\ IsArray(target) ->
             diffArrays(calls, source.value, target.value)
      [] source # target /\ IsObject(source) /\ IsObject(target) ->
             diffObjects(calls, source.value, target.value)
      [] OTHER -> <<Replacement(<<>>, target)>>

(* Every call of diff, by its source and target.                            *)
diffs[call \in Documents \X Documents] == diffBy(diffs, call[1], call[2])
diff(source, target) == diffs[<<source, target>>]

-----------------------------------------------------------------------------
(* sentState: a state with the time and the round trip of its send.         *)
Stamped(state, stamp) ==
    Object([k \in DOMAIN state.value \cup DOMAIN stamp |->
               IF k \in DOMAIN stamp THEN stamp[k] ELSE state.value[k]])
NewStamp == [k \in DOMAIN Unkept |-> [Unkept[k] EXCEPT !.value = @ + 1]]
sentState == Stamped(current, NewStamp)

(* What every JSON value is: a number, a string, true, false or null, or a  *)
(* finite collection of values that are nested less deep.                   *)
IsDocument(j) ==
    /\ j = [type |-> j.type, value |-> j.value] /\ j.type # Thrown.type
    /\ Depth[j] \in Nat
    /\ IsObject(j) =>
           /\ IsFiniteSet(DOMAIN j.value) /\ DOMAIN j.value \subseteq STRING
           /\ j.value = [k \in DOMAIN j.value |-> j.value[k]]
           /\ \A k \in DOMAIN j.value : j.value[k] \in Documents /\ Depth[j.value[k]] < Depth[j]
    /\ IsArray(j) =>
           /\ j.value \in Seq(Documents)
           /\ \A i \in DOMAIN j.value : Depth[j.value[i]] < Depth[j]
           /\ \A m, n \in 0 .. Len(j.value) : Token(m) \in STRING /\ (Token(m) = Token(n) => m = n)

ASSUME PatchAssumption ==
    /\ \A j \in Documents : IsDocument(j)
    /\ \A s \in States :
           /\ s \in Documents /\ Stamped(s, NewStamp) \in Documents
           /\ IsObject(s) /\ DOMAIN s.value \cap DOMAIN Unkept = {}

(* The receiver has the state of the last send, and its stamp unless it was *)
(* the one that on_open sends.  The check of the mark, which compress has   *)
(* set, is passed: a bucket that was parsed would end in its exception, and *)
(* there would be nothing to apply.                                         *)
PatchInit ==
    /\ previousState \in States /\ current \in States
    /\ result \in {previousState, Stamped(previousState, Unkept)}
    /\ todo = diff(previousState, sentState)

(* One turn of patch's loop. *)
Apply ==
    /\ todo # <<>> /\ result # Thrown
    /\ result' = Applied(result, Head(todo))
    /\ todo' = Tail(todo)
    /\ UNCHANGED <<previousState, current>>

PatchNext == Apply
PatchSpec == PatchInit /\ [][PatchNext]_patchVars

-----------------------------------------------------------------------------
(* Properties. *)

(* compress and inflate, given the bucket that compress made, carry a state *)
(* to a receiver that has the one before:                                   *)
(* no operation throws, and the last one leaves what was sent, although the *)
(* receiver's state has a time and a round trip that the delta adds again.  *)
(* So a delta is empty only between equal states, which both ends rely on   *)
(* when they skip one.                                                      *)
DeltaCarries ==
    /\ result # Thrown
    /\ todo = <<>> => result = sentState
    /\ diff(previousState, current) = <<>> <=> previousState = current

=============================================================================
