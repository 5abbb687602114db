---------------------------- MODULE ByteStream ----------------------------
(***************************************************************************)
(* What a pipe promises: the bytes pushed at one end are pulled in the same *)
(* order at the other, in pieces of any size, and the end of the stream is  *)
(* seen once the writer has closed it and no byte is left.                  *)
(***************************************************************************)
EXTENDS Naturals, Sequences

VARIABLES
    stream,    \* bytes written and not yet read
    got,       \* bytes read
    finished,  \* the writer has closed the stream
    ended      \* the reader has seen the end
vars == <<stream, got, finished, ended>>

Init == stream = <<>> /\ got = <<>> /\ ~finished /\ ~ended

\* Some bytes are added at the end.
Push ==
    /\ ~finished
    /\ Len(stream') > Len(stream)
    /\ SubSeq(stream', 1, Len(stream)) = stream
    /\ UNCHANGED <<got, finished, ended>>

Close == ~finished /\ finished' = TRUE /\ UNCHANGED <<stream, got, ended>>

Pull ==
    /\ \E n \in 1..Len(stream) :
           /\ got' = got \o SubSeq(stream, 1, n)
           /\ stream' = SubSeq(stream, n + 1, Len(stream))
    /\ UNCHANGED <<finished, ended>>

End ==
    /\ finished /\ stream = <<>>
    /\ ended' = TRUE
    /\ UNCHANGED <<stream, got, finished>>

Next == Push \/ Close \/ Pull \/ End

Spec == Init /\ [][Next]_vars
=============================================================================
