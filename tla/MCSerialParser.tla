--------------------------- MODULE MCSerialParser ---------------------------
(* SerialParser with the real checksum table and messages of two bytes.    *)
EXTENDS SerialParser, SerialCRC

ASSUME TableIsRemainder

(* A fast message, a reliable one that needs escapes, a request for a       *)
(* response, a response; two whose checksum is an opening bracket; then one *)
(* byte too long for the receiver, and one that fits the receiver but,      *)
(* escaped, not the sender's buffer.                                        *)
MCFrames ==
    {[flags |-> 32, sn |-> 98, data |-> <<97, 97>>],
     [flags |-> 34, sn |-> 92, data |-> <<91>>],
     [flags |-> 40, sn |-> 98, data |-> <<>>],
     [flags |-> 48, sn |-> 40, data |-> <<93>>],
     [flags |-> 40, sn |-> 26, data |-> <<>>],
     [flags |-> 34, sn |-> 93, data |-> <<>>],
     [flags |-> 32, sn |-> 98, data |-> <<97, 97, 97>>],
     [flags |-> 32, sn |-> 98, data |-> <<91, 93>>]}

(* Brackets, the escape, an escaped bracket, flags that turn the CRC off,   *)
(* and the checksum of a request for a response whose flags are misread.    *)
MCNoise == {Open, Close, Backslash, 40, 36, 12}
=============================================================================
