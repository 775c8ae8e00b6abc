----------------------------- MODULE MCTailBlock -----------------------------
(***************************************************************************)
(* One schedule of MpmcQueue, which is too long to be met by a search: an  *)
(* installer that is overtaken puts tail.block back.  Every step is a step *)
(* of Next; the schedule only says whose.                                  *)
(***************************************************************************)
EXTENDS MpmcQueue

Seven == 1..7
Eight == {8}

\* Positions 0, 1, 2 are producer 1's, then 4, 5, 6, 8, 9, 10 are claimed by 2
\* to 7.  Each thread runs until it is at the label.
Schedule ==
    << <<1, "take">>, <<2, "find">>, <<3, "find">>, <<4, "find">>, <<5, "find">>,
       <<6, "find">>,
       <<7, "fast">>,                       \* 7 has loaded tail.block: block 1
       <<1, "idle">>, <<2, "idle">>, <<3, "idle">>,
       <<8, "read">>, <<8, "idle">>, <<8, "read">>, <<8, "idle">>,
       <<8, "read">>, <<8, "idle">>,        \* block 1 is recycled,
       <<4, "next">>,                       \* and given to the lap of 8..11
       <<7, "write">>,                      \* 7 finds it, and installs the next one
       <<4, "write">>,                      \* 4 stores tail.block after 7
       <<7, "idle">>, <<4, "idle">>, <<5, "idle">>, <<6, "idle">>,
       <<8, "read">>, <<8, "idle">>, <<8, "read">>, <<8, "idle">>,
       <<8, "read">>, <<8, "idle">>, <<8, "read">>, <<8, "idle">>,
       <<8, "read">>, <<8, "idle">>, <<8, "read">>, <<8, "idle">> >>

VARIABLE turn  \* where in the schedule

AtLabel(entry) ==
    LET t == entry[1] IN (IF t \in Consumers THEN cpc[t] ELSE ppc[t]) = entry[2]

Step(t) == \/ t \in Consumers /\ Consumer(t)
           \/ t \in Producers /\ Producer(t)

Scheduled ==
    /\ turn <= Len(Schedule)
    /\ IF AtLabel(Schedule[turn])
       THEN turn' = turn + 1 /\ UNCHANGED vars
       ELSE Step(Schedule[turn][1]) /\ UNCHANGED turn

ScheduleSpec == Init /\ turn = 1 /\ [][Scheduled]_<<vars, turn>>

\* tail.block is a block that serves a lap.  The comment of finish_block
\* (queue.rs:970-972) says of a block that is recycled: "The installing producer
\* linked `next` before writing this slot, and it published `tail.block = next`
\* too, so nobody will look for this block once it is recycled."  A push whose
\* search starts at a recycled block goes on for ever.
TailBlockInUse == start[tailBlock] # POOLED
=============================================================================
