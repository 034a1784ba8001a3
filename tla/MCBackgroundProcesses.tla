----------------------- MODULE MCBackgroundProcesses -----------------------
EXTENDS BackgroundProcesses

Whole(c) == <<[char |-> c, part |-> "whole"]>>
Wide(c) == <<[char |-> c, part |-> "lead"], [char |-> c, part |-> "rest"]>>

\* A two-byte character that a chunk of a reader, the cap of a read or the cap of
\* the buffer may cut, and a second stream to be drained with the first.
MCOutput == [stdout |-> Whole(1) \o Wide(2) \o Whole(3) \o Whole(5), stderr |-> Whole(4)]

=============================================================================
