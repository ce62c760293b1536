------------------------------ MODULE ByteStore ------------------------------
(***************************************************************************)
(* What a reader of RAM-Link's cache layers expects of remote memory: an   *)
(* array of bytes that only writes change.  One request is served at a     *)
(* time; a request that fails may have written a prefix of its data.       *)
(***************************************************************************)
EXTENDS Integers, Sequences

CONSTANTS RemoteSize,   \* bytes behind the cache
          Values        \* the values a byte can have

VARIABLES contents,     \* the array
          request,      \* the request being served
          answer        \* the outcome of the last request

storeVars == <<contents, request, answer>>

Kinds == {"idle", "read", "write", "flush"}

Idle == [kind |-> "idle", offset |-> 0, length |-> 0, data |-> <<>>]

NoAnswer == [ok |-> TRUE, data |-> <<>>]

Error == [ok |-> FALSE, data |-> <<>>]

Slice(array, offset, length) == [i \in 1 .. length |-> array[offset + i - 1]]

\* `array` with the first k elements of `data` stored from `offset` on.
Overwrite(array, offset, data, k) ==
    [b \in DOMAIN array |->
       IF b \in offset .. offset + k - 1 THEN data[b - offset + 1] ELSE array[b]]

Init ==
    /\ contents \in [0 .. RemoteSize - 1 -> Values]
    /\ request = Idle
    /\ answer = NoAnswer

Ask ==
    /\ request.kind = "idle"
    /\ request'.kind # "idle"
    /\ request'.offset + request'.length <= RemoteSize
    /\ answer' = NoAnswer
    /\ UNCHANGED contents

WriteSome ==
    /\ request.kind = "write"
    /\ \E k \in 0 .. request.length :
         contents' = Overwrite(contents, request.offset, request.data, k)
    /\ UNCHANGED <<request, answer>>

Succeed ==
    /\ request.kind # "idle"
    /\ request.kind = "write" =>
         contents = Overwrite(contents, request.offset, request.data, request.length)
    /\ answer' = [ok |-> TRUE,
                  data |-> IF request.kind = "read"
                           THEN Slice(contents, request.offset, request.length)
                           ELSE <<>>]
    /\ request' = Idle
    /\ UNCHANGED contents

Fail ==
    /\ request.kind # "idle"
    /\ \E k \in 0 .. Len(request.data) :
         contents' = Overwrite(contents, request.offset, request.data, k)
    /\ answer' = Error
    /\ request' = Idle

Next == Ask \/ WriteSome \/ Succeed \/ Fail

Spec == Init /\ [][Next]_storeVars

=============================================================================
