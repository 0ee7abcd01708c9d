---------------------------- MODULE MCMemAccess ----------------------------
EXTENDS MemAccess

\* Three pages of eight bytes: page 0 on RAM (frame 0), perhaps read-only,
\* page 1 on its own RAM (1), sharing frame 0 or absent, page 2 a device (2) or nothing (3).
At(f)  == [frame |-> f, r |-> TRUE, w |-> TRUE]
Ro(f)  == [frame |-> f, r |-> TRUE, w |-> FALSE]
Absent == [frame |-> NoFrame, r |-> FALSE, w |-> FALSE]

MCVPage   == 0 .. 2
MCMapping == [v \in MCVPage |->
    CASE v = 0 -> {At(0), Ro(0)}
      [] v = 1 -> {At(1), At(0), Absent}
      [] v = 2 -> {At(2), At(3)}]

St(a, size) == [addr |-> a, bytes |-> [i \in 1 .. size |-> 100 + i]]

\* Aligned and not, inside a page, across each page boundary and around the end.
MCStore == {St(6, 4), St(12, 8), St(16, 4), St(22, 4)}
=============================================================================
