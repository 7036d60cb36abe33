--------------------------- MODULE MCProjectSwarm ---------------------------
(* Three files, and the plans the planner may answer.                      *)
EXTENDS ProjectSwarm

A == <<"src", "a">>
B == <<"src", "b">>
C == <<"doc">>
MCFiles == {A, B, C}

Task(id, deps, owned) == [id |-> id, deps |-> deps, owned |-> owned, valid |-> TRUE]

MCPlans ==
    LET answer(tasks) == [tasks |-> tasks, verify |-> "safe"] IN
    { answer(<<Task(2, {}, {A}), Task(1, {}, {B})>>),                 \* one wave
      answer(<<Task(1, {2}, {A}), Task(2, {}, {B})>>),                \* two waves
      answer(<<Task(1, {}, {A}), Task(3, {1, 2}, {C}), Task(2, {}, {B})>>), \* three tasks
      answer(<<Task(1, {2}, {A}), Task(2, {1}, {B})>>),               \* a cycle
      answer(<<Task(1, {}, {<<"src">>}), Task(2, {}, {B})>>),         \* overlap
      answer(<<Task(1, {}, {<<"..", "x">>}), Task(2, {}, {B})>>),     \* unsafe
      answer(<<Task(1, {}, {<<".">> \o A}), Task(2, {1}, {B})>>) }    \* "./src/a"
=============================================================================
