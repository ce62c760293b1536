-------------------------- MODULE MCRmlConnection --------------------------
(* Requests for model checking RmlConnection. *)
EXTENDS RmlConnection

Ask(ops, offsets, lengths) == [op : ops, offset : offsets, length : lengths]

Fixed == {"INFO", "PING", "BORROW", "RELEASE", "KEEPALIVE", "BLOCK_INFO"}

PlainRequests == Ask(Fixed, {0}, {0}) \cup Ask({"READ"}, {2}, 0 .. 3)

AllRequests ==
    PlainRequests \cup Ask({"WRITE", "BLOCK_READ", "BLOCK_WRITE"}, {1}, 0 .. 2)

\* The keepalive thread of client.py beside one that makes every request.
TwoThreads ==
    [t \in {"main", "keepalive"} |->
       IF t = "main" THEN AllRequests ELSE Ask({"KEEPALIVE"}, {0}, {0})]

\* Protocol test: borrow, write, read, keep alive, release.
TestRequests ==
    Ask({"BORROW", "KEEPALIVE", "RELEASE"}, {0}, {0}) \cup Ask({"READ", "WRITE"}, {0}, {2})

OneThread == [t \in {"main"} |-> TestRequests]

=============================================================================
