------------------------ MODULE JobExecution_proofs ------------------------
(***************************************************************************)
(* What holds of the model cache and of the job that reads it, for any     *)
(* models, commands and number of faults.                                  *)
(*                                                                         *)
(* The first part is about ModelCache.  Its invariant describes the time   *)
(* between two manifest writes: what is on disk is the new record for a    *)
(* model that was written and at most the old one for another, and the     *)
(* model that loses the mark is written before the one that gets it.       *)
(*                                                                         *)
(* The second part is about the job: what the health report promised still *)
(* holds when the job meets it.  The third is about its stream: sequences  *)
(* with the white space trimmed, and what each attempt adds to them.       *)
(***************************************************************************)
EXTENDS JobExecution, FiniteSetTheorems, WellFoundedInduction, TLAPS

-----------------------------------------------------------------------------
(* Types.                                                                  *)

Records == [active : BOOLEAN, source : BOOLEAN, rejected : BOOLEAN, readable : BOOLEAN]
Caches  == UNION {[S -> Records] : S \in SUBSET Models}

Named  == {"fit", "prefetch", "download", "verify", "rename", "records"}
Steps  == Named \cup {"idle", "write", "applied", "save"}
Edits  == {"add", "use", "import", "remove", "prune"}
Setups == {"none", "refresh", "install", "start"}

OpRecords ==
    [kind : Edits \cup {"idle", "install", "start"}, name : Models \cup {none},
     flag : BOOLEAN, step : Steps, old : Caches, new : Caches, left : SUBSET Models,
     active : Models \cup {none}, setup : Setups, torn : BOOLEAN]

CacheTypes ==
    /\ files \in [Models -> SUBSET {"managed", "imported", "damaged"}]
    /\ partial \in [Models -> {"none", "whole", "damaged"}]
    /\ manifest \in Caches
    /\ active \in Models \cup {none}
    /\ op \in OpRecords

-----------------------------------------------------------------------------
(* The invariant of the cache.                                             *)

\* The progress of a command.
OpInv ==
    /\ op.kind = "idle" <=> op.step = "idle"
    /\ op.step \in Named => op.name \in Models /\ op.kind \in Edits
    /\ op.step \in {"write", "applied"} => op.kind \in Edits
    /\ op.step = "applied" => op.setup # "none"
    /\ op.setup = "refresh" => op.kind = "use"
    /\ op.setup # "none" => op.kind \in {"use", "import"}
    /\ op.setup \in {"install", "start"} => active = none /\ (op.kind = "import" => op.flag)

WholeInv ==
    /\ op.step = "rename" => partial[op.name] = "whole"
    /\ CachedIsWhole

OneActive(f) == \A x, y \in DOMAIN f : f[x].active /\ f[y].active => x = y

\* a is the active model of f, or none is active.
Chosen(f, a) ==
    IF a = none THEN \A m \in DOMAIN f : ~f[m].active
    ELSE a \in DOMAIN f /\ \A m \in DOMAIN f : f[m].active <=> m = a

\* The mark passes from x to y only with x in the new list, and before y gets it.
Handover(old, new, left) ==
    \A x \in DOMAIN old, y \in DOMAIN new :
       old[x].active /\ new[y].active /\ x # y
          => x \in DOMAIN new /\ (y \notin left => x \notin left)

\* What is on disk while a list is written: the new record of a model that was
\* written, and of another no mark that the old list does not have.
Passing(disk, old, new, left) ==
    /\ \A m \in DOMAIN new \ left : m \in DOMAIN disk /\ disk[m] = new[m]
    /\ \A m \in DOMAIN disk :
          disk[m].active /\ m \notin DOMAIN new \ left => m \in DOMAIN old /\ old[m].active
    /\ Handover(old, new, left)

\* The list a command has made and not yet written.
WriteInv ==
    op.step = "write" =>
       /\ Chosen(op.new, op.active)
       /\ OneActive(op.old)
       /\ \A m \in DOMAIN op.new : op.new[m].readable
       /\ op.left \subseteq DOMAIN op.new
       /\ Passing(manifest, op.old, op.new, op.left)

\* start goes on with a model in use.
StartInv ==
    /\ op.step \in {"write", "applied"} /\ op.setup = "start"
    /\ op.kind = "use" \/ ~op.new[op.name].rejected
    => op.active # none

\* What is about to be saved, and what was saved.
Unsaved == \/ op.step \in {"write", "applied"}
           \/ op.step = "save" /\ op.kind \in Edits

SaveInv ==
    /\ op.step = "applied" => Chosen(manifest, op.active)
    /\ op.step = "save" /\ op.kind \in Edits /\ op.active # none => Chosen(manifest, op.active)
    /\ op.step = "save" /\ op.kind \notin Edits => op.active = active
    /\ ~Unsaved /\ ~op.torn /\ active # none => Chosen(manifest, active)

MarkInv ==
    /\ OneActive(manifest)
    /\ \A m \in DOMAIN manifest : manifest[m].active => manifest[m].readable

CacheInv == CacheTypes /\ OpInv /\ WholeInv /\ WriteInv /\ StartInv /\ SaveInv /\ MarkInv

-----------------------------------------------------------------------------
(* Caches.                                                                 *)

LEMMA CacheIs ==
    ASSUME NEW f \in Caches
    PROVE  f \in [DOMAIN f -> Records] /\ DOMAIN f \subseteq Models
  BY DEF Caches

LEMMA IsCache ==
    ASSUME NEW S \in SUBSET Models, NEW f \in [S -> Records]
    PROVE  f \in Caches /\ DOMAIN f = S
  BY DEF Caches

LEMMA BlankIs ==
    /\ blank \in Records /\ ~blank.active /\ blank.readable /\ ~blank.source
    /\ [blank EXCEPT !.readable = FALSE] \in Records
    /\ ~[blank EXCEPT !.readable = FALSE].active
    /\ ~[blank EXCEPT !.readable = FALSE].source
    /\ [blank EXCEPT !.active = TRUE] \in Records
    /\ [blank EXCEPT !.active = TRUE].active /\ [blank EXCEPT !.active = TRUE].readable
    /\ ~[blank EXCEPT !.active = TRUE].source
  BY DEF blank, Records

LEMMA ZeroIsNoModel == none \notin Models
  BY CacheAssumption DEF none

(* list_models leaves out the unreadable manifests. *)
LEMMA ListedIs ==
    ASSUME manifest \in Caches
    PROVE  /\ list_models \in Caches
           /\ DOMAIN list_models = {m \in DOMAIN manifest : manifest[m].readable}
           /\ \A m \in DOMAIN list_models : list_models[m] = manifest[m]
<1> DEFINE D == {m \in DOMAIN manifest : manifest[m].readable}
<1>1. D \in SUBSET Models /\ \A m \in D : manifest[m] \in Records
  BY CacheIs
<1>2. list_models \in [D -> Records]
  BY <1>1 DEF list_models
<1> QED BY <1>1, <1>2, IsCache DEF list_models

LEMMA WithoutIs ==
    ASSUME NEW f \in Caches, NEW gone
    PROVE  /\ Without(f, gone) \in Caches
           /\ DOMAIN Without(f, gone) = DOMAIN f \ gone
           /\ \A m \in DOMAIN f \ gone : Without(f, gone)[m] = f[m]
<1>1. DOMAIN f \ gone \in SUBSET Models /\ \A m \in DOMAIN f \ gone : f[m] \in Records
  BY CacheIs
<1>2. Without(f, gone) \in [DOMAIN f \ gone -> Records]
  BY <1>1 DEF Without
<1> QED BY <1>1, <1>2, IsCache DEF Without

LEMMA WithIs ==
    ASSUME NEW f \in Caches, NEW m \in Models, NEW r \in Records
    PROVE  /\ With(f, m, r) \in Caches
           /\ DOMAIN With(f, m, r) = DOMAIN f \cup {m}
           /\ With(f, m, r)[m] = r
           /\ \A n \in DOMAIN f \ {m} : With(f, m, r)[n] = f[n]
<1>1. /\ DOMAIN f \cup {m} \in SUBSET Models
      /\ \A n \in DOMAIN f \cup {m} : (IF n = m THEN r ELSE f[n]) \in Records
  BY CacheIs
<1>2. With(f, m, r) \in [DOMAIN f \cup {m} -> Records]
  BY <1>1 DEF With
<1> QED BY <1>1, <1>2, IsCache DEF With

LEMMA RecordIs ==
    ASSUME NEW f \in Caches, NEW m
    PROVE  /\ Record(f, m) \in Records
           /\ Record(f, m).readable <=> (m \in DOMAIN f => f[m].readable)
           /\ Record(f, m).active <=> (m \in DOMAIN f /\ f[m].active)
           /\ Record(f, m).source <=> (m \in DOMAIN f /\ f[m].source)
<1>1. CASE m \in DOMAIN f
  <2>1. f[m] \in Records
    BY <1>1, CacheIs
  <2> QED BY <1>1, <2>1 DEF Record, Records
<1>2. CASE m \notin DOMAIN f
  BY <1>2, BlankIs DEF Record
<1> QED BY <1>1, <1>2

(* The active model of a list is the one that says so. *)
LEMMA FirstActiveIs ==
    ASSUME NEW list, NEW f \in Caches, OneActive(f)
    PROVE  Chosen(f, FirstActive(list, f)) /\ FirstActive(list, f) \in DOMAIN f \cup {none}
<1> DEFINE on == {m \in DOMAIN f : f[m].active}
<1>1. CASE on = {}
  BY <1>1 DEF FirstActive, Chosen
<1>2. CASE on # {}
  <2>1. PICK x : x \in on
    BY <1>2
  <2>2. on = {x}
    BY <2>1 DEF OneActive
  <2>3. FirstActive(list, f) = CHOOSE m \in on : \A n \in on \ {m} : Precedes(list, m, n)
    BY <1>2 DEF FirstActive
  <2>4. FirstActive(list, f) = x
    BY <2>2, <2>3
  <2>5. x \in Models /\ x # none
    BY <2>1, CacheIs, ZeroIsNoModel
  <2>6. \A m \in DOMAIN f : f[m].active \in BOOLEAN
    BY CacheIs DEF Records
  <2>7. \A m \in DOMAIN f : f[m].active <=> m = x
    BY <2>2, <2>6
  <2> QED BY <2>1, <2>4, <2>5, <2>7 DEF Chosen
<1> QED BY <1>1, <1>2

LEMMA ChosenIsOne ==
    ASSUME NEW f, NEW a, Chosen(f, a)
    PROVE  OneActive(f)
  BY DEF Chosen, OneActive

(* A list in which the record of one model is made new and the others are changed
   in the same way. *)
LEMMA ChangedIs ==
    ASSUME NEW f \in Caches, NEW name \in Models, NEW first \in Records, NEW other, NEW g,
           other \in [DOMAIN f -> Records],
           g = [m \in DOMAIN f \cup {name} |-> IF m = name THEN first ELSE other[m]]
    PROVE  /\ g \in Caches /\ DOMAIN g = DOMAIN f \cup {name}
           /\ g[name] = first /\ \A m \in DOMAIN f \ {name} : g[m] = other[m]
<1>1. DOMAIN f \cup {name} \in SUBSET Models
  BY CacheIs
<1>2. g \in [DOMAIN f \cup {name} -> Records]
  OBVIOUS
<1> QED BY <1>1, <1>2, IsCache

(* upsert_model: with use it is the named model that is active, without it the
   active model stays. *)
LEMMA UpsertMarks ==
    ASSUME NEW f \in Caches, NEW name \in Models, NEW use \in BOOLEAN, OneActive(f),
           \A m \in DOMAIN f : f[m].readable,
           NEW g, g = upsert_model(f, name, use)
    PROVE  /\ g \in Caches /\ DOMAIN g = DOMAIN f \cup {name}
           /\ \A m \in DOMAIN g : g[m].readable
           /\ OneActive(g) /\ (use => g[name].active)
           /\ Handover(f, g, DOMAIN g)
           /\ \A m \in DOMAIN g : g[m].source => m \in DOMAIN f /\ f[m].source
<1> DEFINE First == [Record(f, name) EXCEPT !.active = use \/ @]
           Other == [m \in DOMAIN f |-> [f[m] EXCEPT !.active = ~use /\ @]]
<1>1. /\ Record(f, name) \in Records /\ Record(f, name).readable
      /\ Record(f, name).active <=> (name \in DOMAIN f /\ f[name].active)
      /\ Record(f, name).source <=> (name \in DOMAIN f /\ f[name].source)
      /\ \A m \in DOMAIN f : f[m] \in Records
  BY CacheIs, RecordIs
<1>2. /\ First \in Records /\ First.readable
      /\ First.active <=> (use \/ (name \in DOMAIN f /\ f[name].active))
      /\ First.source <=> (name \in DOMAIN f /\ f[name].source)
  BY <1>1 DEF Records
<1>3. ASSUME NEW m \in DOMAIN f
      PROVE  /\ Other[m] \in Records /\ Other[m].readable
             /\ Other[m].active <=> (~use /\ f[m].active)
             /\ Other[m].source = f[m].source
  BY <1>1 DEF Records
<1>4. Other \in [DOMAIN f -> Records]
  BY <1>3
<1>5. g = [m \in DOMAIN f \cup {name} |-> IF m = name THEN First ELSE Other[m]]
  BY <1>1 DEF upsert_model
<1> HIDE DEF First, Other
<1>6. /\ g \in Caches /\ DOMAIN g = DOMAIN f \cup {name}
      /\ g[name] = First /\ \A m \in DOMAIN f \ {name} : g[m] = Other[m]
  BY <1>2, <1>4, <1>5, ChangedIs
<1>7. OneActive(g)
  BY <1>2, <1>3, <1>6 DEF OneActive
<1>8. Handover(f, g, DOMAIN g)
  BY <1>6 DEF Handover
<1> QED BY <1>2, <1>3, <1>6, <1>7, <1>8

(* upsert_imported_model: the same, and a rejected file is not active. *)
LEMMA ImportMarks ==
    ASSUME NEW f \in Caches, NEW name \in Models, NEW use \in BOOLEAN,
           NEW rejected \in BOOLEAN, OneActive(f), \A m \in DOMAIN f : f[m].readable,
           NEW g, g = upsert_imported_model(f, name, use, rejected)
    PROVE  /\ g \in Caches /\ DOMAIN g = DOMAIN f \cup {name}
           /\ \A m \in DOMAIN g : g[m].readable
           /\ OneActive(g) /\ (g[name].rejected <=> rejected)
           /\ use /\ ~rejected => g[name].active
           /\ Handover(f, g, DOMAIN g)
           /\ \A m \in DOMAIN g \ {name} : g[m].source => m \in DOMAIN f /\ f[m].source
<1> DEFINE on == use /\ ~rejected
           R == Record(f, name)
           First == [R EXCEPT !.active = ~rejected /\ (on \/ @),
                              !.source = TRUE, !.rejected = rejected]
           Other == [m \in DOMAIN f |-> [f[m] EXCEPT !.active = ~on /\ @]]
<1>1. /\ R \in Records /\ R.readable
      /\ R.active <=> (name \in DOMAIN f /\ f[name].active)
      /\ \A m \in DOMAIN f : f[m] \in Records
  BY CacheIs, RecordIs
<1>2. g = [m \in DOMAIN f \cup {name} |-> IF m = name THEN First ELSE Other[m]]
  <2>1. g = [m \in DOMAIN f \cup {name} |->
               IF m = name THEN [Record(f, m) EXCEPT !.active = ~rejected /\ (on \/ @),
                                         !.source = TRUE, !.rejected = rejected]
               ELSE [f[m] EXCEPT !.active = ~on /\ @]]
    BY Zenon DEF upsert_imported_model
  <2> QED BY <2>1, Zenon
<1>3. PICK a : a = (~rejected /\ (on \/ R.active))
  OBVIOUS
<1>4. First = [R EXCEPT !.active = a, !.source = TRUE, !.rejected = rejected]
  BY <1>3, Zenon
<1>5. PICK q : q = [R EXCEPT !.active = a, !.source = TRUE, !.rejected = rejected]
  OBVIOUS
<1>6. a \in BOOLEAN /\ TRUE \in BOOLEAN
  BY <1>3
<1> HIDE DEF R
<1>7. q \in Records /\ q.active = a /\ q.readable = R.readable /\ q.rejected = rejected
  BY <1>1, <1>5, <1>6, Zenon DEF Records
<1>8. First = q
  BY <1>4, <1>5, Zenon
<1>9. ASSUME NEW m \in DOMAIN f
      PROVE  /\ Other[m] \in Records /\ Other[m].readable
             /\ Other[m].active <=> (~on /\ f[m].active)
             /\ Other[m].source = f[m].source
  BY <1>1 DEF Records
<1>10. Other \in [DOMAIN f -> Records]
  BY <1>9
<1> HIDE DEF First, Other
<1>11. /\ g \in Caches /\ DOMAIN g = DOMAIN f \cup {name}
       /\ g[name] = q /\ \A m \in DOMAIN f \ {name} : g[m] = Other[m]
  BY <1>2, <1>7, <1>8, <1>10, ChangedIs
<1>12. q.active <=> (~rejected /\ (on \/ (name \in DOMAIN f /\ f[name].active)))
  BY <1>1, <1>3, <1>7
<1>13. OneActive(g)
  BY <1>9, <1>11, <1>12 DEF OneActive
<1>14. Handover(f, g, DOMAIN g)
  BY <1>11 DEF Handover
<1>15. \A m \in DOMAIN g : g[m].readable
  BY <1>1, <1>7, <1>9, <1>11
<1>16. use /\ ~rejected => g[name].active
  BY <1>11, <1>12
<1>17. \A m \in DOMAIN g \ {name} : g[m].source => m \in DOMAIN f /\ f[m].source
  BY <1>9, <1>11
<1> QED BY <1>7, <1>11, <1>13, <1>14, <1>15, <1>16, <1>17

(* What is left when models are taken out. *)
LEMMA WithoutMarks ==
    ASSUME NEW f \in Caches, NEW gone, OneActive(f), \A m \in DOMAIN f : f[m].readable,
           NEW g, g = Without(f, gone)
    PROVE  /\ g \in Caches /\ DOMAIN g = DOMAIN f \ gone
           /\ \A m \in DOMAIN g : g[m].readable
           /\ OneActive(g) /\ Handover(f, g, DOMAIN g)
           /\ \A m \in DOMAIN g : g[m].source => m \in DOMAIN f /\ f[m].source
<1>1. /\ Without(f, gone) \in Caches /\ DOMAIN Without(f, gone) = DOMAIN f \ gone
      /\ \A m \in DOMAIN f \ gone : Without(f, gone)[m] = f[m]
  BY WithoutIs
<1>2. g \in Caches /\ DOMAIN g = DOMAIN f \ gone /\ \A m \in DOMAIN g : g[m] = f[m]
  BY <1>1
<1> QED BY <1>2 DEF OneActive, Handover

-----------------------------------------------------------------------------
(* Steps that write no manifest.                                           *)

LEMMA RestingIs ==
    /\ resting \in OpRecords /\ resting.kind = "idle" /\ resting.step = "idle"
    /\ resting.setup = "none" /\ ~resting.torn /\ resting.old = noRecords
<1>1. noRecords \in [{} -> Records] /\ {} \in SUBSET Models
  BY DEF noRecords
<1>2. noRecords \in Caches
  BY <1>1, IsCache
<1> QED BY <1>2 DEF resting, OpRecords, Edits, Steps, Named, Setups

LEMMA ExitsIs ==
    ASSUME op \in OpRecords
    PROVE  /\ Exits \in OpRecords /\ Exits.kind = "idle" /\ Exits.step = "idle"
           /\ Exits.setup = "none" /\ Exits.torn = op.torn
<1>1. op.torn \in BOOLEAN
  BY DEF OpRecords
<1> QED BY <1>1, RestingIs DEF Exits, OpRecords

(* A step to a place before the records are read, or to the end. *)
LEMMA Moves ==
    ASSUME CacheInv, NEW q \in OpRecords, op' = q, UNCHANGED <<manifest, active>>,
           q.step \in Named \cup {"idle"}, q.step = "idle" <=> q.kind = "idle",
           q.step \in Named => q.name \in Models /\ q.kind \in Edits,
           q.setup = "refresh" => q.kind = "use",
           q.setup # "none" => q.kind \in {"use", "import"},
           q.setup \in {"install", "start"} => active = none /\ (q.kind = "import" => q.flag),
           ~q.torn /\ active # none => ~op.torn /\ ~Unsaved,
           files' \in [Models -> SUBSET {"managed", "imported", "damaged"}],
           partial' \in [Models -> {"none", "whole", "damaged"}], WholeInv'
    PROVE  CacheInv'
<1>1. q.step \notin {"write", "applied", "save"}
  BY DEF Named
<1>2. CacheTypes'
  BY DEF CacheInv, CacheTypes
<1>3. OpInv'
  BY <1>1 DEF OpInv
<1>4. WriteInv' /\ StartInv'
  BY <1>1 DEF WriteInv, StartInv
<1>5. ~Unsaved'
  BY <1>1 DEF Unsaved
<1>6. SaveInv'
  <2>1. ~op.torn /\ ~Unsaved /\ active # none => Chosen(manifest, active)
    BY DEF CacheInv, SaveInv
  <2>2. ~q.torn /\ active # none => Chosen(manifest, active)'
    BY <2>1 DEF Chosen
  <2> QED BY <1>1, <1>5, <2>2 DEF SaveInv
<1>7. MarkInv'
  BY DEF CacheInv, MarkInv, OneActive
<1> QED BY <1>2, <1>3, <1>4, <1>6, <1>7 DEF CacheInv

(* The command ends. *)
LEMMA Rests ==
    ASSUME CacheInv, op' = Exits, UNCHANGED <<manifest, active>>,
           ~Unsaved \/ active = none,
           files' \in [Models -> SUBSET {"managed", "imported", "damaged"}],
           partial' \in [Models -> {"none", "whole", "damaged"}], CachedIsWhole'
    PROVE  CacheInv'
<1>1. op \in OpRecords
  BY DEF CacheInv, CacheTypes
<1>2. /\ op' \in OpRecords /\ op'.kind = "idle" /\ op'.step = "idle"
      /\ op'.setup = "none" /\ op'.torn = op.torn
  BY <1>1, ExitsIs
<1>3. WholeInv'
  BY <1>2 DEF WholeInv
<1> QED BY <1>2, <1>3, Moves DEF Named

(* The command goes on to the place s. *)
LEMMA GoesOn ==
    ASSUME CacheInv, NEW s \in Named, op' = [op EXCEPT !.step = s], op.step \in Named,
           UNCHANGED <<manifest, active>>,
           files' \in [Models -> SUBSET {"managed", "imported", "damaged"}],
           partial' \in [Models -> {"none", "whole", "damaged"}], CachedIsWhole',
           s = "rename" => partial'[op.name] = "whole"
    PROVE  CacheInv'
<1>1. op \in OpRecords
  BY DEF CacheInv, CacheTypes
<1>2. /\ op' \in OpRecords /\ op'.step = s /\ op'.kind = op.kind /\ op'.name = op.name
      /\ op'.flag = op.flag /\ op'.setup = op.setup /\ op'.torn = op.torn
  BY <1>1, ZenonT(60) DEF OpRecords, Steps
<1>3. WholeInv'
  BY <1>2 DEF WholeInv
<1>4. ~Unsaved
  BY DEF Unsaved, Named
<1>5. /\ op.name \in Models /\ op.kind \in Edits /\ op.kind # "idle"
      /\ op.setup = "refresh" => op.kind = "use"
      /\ op.setup # "none" => op.kind \in {"use", "import"}
      /\ op.setup \in {"install", "start"} => active = none /\ (op.kind = "import" => op.flag)
  BY DEF CacheInv, OpInv, Named
<1>6. s # "idle"
  BY DEF Named
<1> QED BY <1>2, <1>3, <1>4, <1>5, <1>6, Moves, ZenonT(60)

LEMMA FitKeeps == CacheInv /\ ensure_catalog_model_fits => CacheInv'
<1> SUFFICES ASSUME CacheInv, ensure_catalog_model_fits PROVE CacheInv'
  OBVIOUS
<1>1. /\ op.step = "fit" /\ UNCHANGED <<files, partial, manifest, active>>
      /\ files \in [Models -> SUBSET {"managed", "imported", "damaged"}]
      /\ partial \in [Models -> {"none", "whole", "damaged"}] /\ CachedIsWhole'
  BY DEF CacheInv, CacheTypes, WholeInv, CachedIsWhole, ensure_catalog_model_fits
<1>2. ~Unsaved
  BY <1>1 DEF Unsaved
<1>3. CASE op' = Exits
  BY <1>1, <1>2, <1>3, Rests
<1>4. CASE op' = [op EXCEPT !.step = IF op.setup = "none" THEN "prefetch" ELSE "download"]
  <2>1. PICK s : s = IF op.setup = "none" THEN "prefetch" ELSE "download"
    OBVIOUS
  <2>2. op' = [op EXCEPT !.step = s] /\ s \in Named /\ s # "rename" /\ op.step \in Named
    BY <1>1, <1>4, <2>1 DEF Named
  <2> QED BY <1>1, <2>2, GoesOn
<1> QED BY <1>3, <1>4 DEF ensure_catalog_model_fits

LEMMA PrefetchKeeps == CacheInv /\ Prefetches => CacheInv'
<1> SUFFICES ASSUME CacheInv, Prefetches PROVE CacheInv'
  OBVIOUS
<1>1. /\ op.step = "prefetch" /\ UNCHANGED <<files, partial, manifest, active>>
      /\ files \in [Models -> SUBSET {"managed", "imported", "damaged"}]
      /\ partial \in [Models -> {"none", "whole", "damaged"}] /\ CachedIsWhole'
  BY DEF CacheInv, CacheTypes, WholeInv, CachedIsWhole, Prefetches
<1>2. ~Unsaved
  BY <1>1 DEF Unsaved
<1>3. "download" \in Named /\ op.step \in Named /\ "download" # "rename"
  BY <1>1 DEF Named
<1>4. CASE op' = Exits
  BY <1>1, <1>2, <1>4, Rests
<1>5. CASE op' = [op EXCEPT !.step = "download"]
  BY <1>1, <1>3, <1>5, GoesOn
<1> QED BY <1>4, <1>5 DEF Prefetches

LEMMA DownloadKeeps == CacheInv /\ Downloads => CacheInv'
<1> SUFFICES ASSUME CacheInv, Downloads PROVE CacheInv'
  OBVIOUS
<1>1. /\ op.step = "download" /\ UNCHANGED <<files, manifest, active>>
      /\ files \in [Models -> SUBSET {"managed", "imported", "damaged"}]
      /\ partial \in [Models -> {"none", "whole", "damaged"}] /\ CachedIsWhole'
  BY DEF CacheInv, CacheTypes, WholeInv, CachedIsWhole, Downloads
<1>2. ~Unsaved
  BY <1>1 DEF Unsaved
<1>3. {"records", "verify"} \subseteq Named \ {"rename"} /\ op.step \in Named
  BY <1>1 DEF Named
<1>4. CASE op' = [op EXCEPT !.step = "records"] /\ UNCHANGED partial
  BY <1>1, <1>3, <1>4, GoesOn
<1>5. ASSUME NEW got \in {"whole", "damaged"}, partial' = [partial EXCEPT ![op.name] = got],
             op' = [op EXCEPT !.step = "verify"]
      PROVE  CacheInv'
  <2>1. partial' \in [Models -> {"none", "whole", "damaged"}]
    BY <1>1, <1>5
  <2> QED BY <1>1, <1>3, <1>5, <2>1, GoesOn
<1>6. CASE partial' = [partial EXCEPT ![op.name] = "none"] /\ op' = Exits
  <2>1. partial' \in [Models -> {"none", "whole", "damaged"}]
    BY <1>1, <1>6
  <2> QED BY <1>1, <1>2, <1>6, <2>1, Rests
<1> QED BY <1>4, <1>5, <1>6 DEF Downloads

(* Only a file whose checksum agrees is renamed. *)
LEMMA VerifyKeeps == CacheInv /\ Verifies => CacheInv'
<1> SUFFICES ASSUME CacheInv, Verifies PROVE CacheInv'
  OBVIOUS
<1>1. /\ op.step = "verify" /\ UNCHANGED <<files, partial, manifest, active>>
      /\ files \in [Models -> SUBSET {"managed", "imported", "damaged"}]
      /\ partial \in [Models -> {"none", "whole", "damaged"}] /\ CachedIsWhole'
  BY DEF CacheInv, CacheTypes, WholeInv, CachedIsWhole, Verifies
<1>2. ~Unsaved /\ "rename" \in Named /\ op.step \in Named
  BY <1>1 DEF Unsaved, Named
<1>3. CASE partial[op.name] = "whole"
  <2>1. op' = [op EXCEPT !.step = "rename"]
    BY <1>3 DEF Verifies
  <2> QED BY <1>1, <1>2, <1>3, <2>1, GoesOn
<1>4. CASE partial[op.name] # "whole"
  <2>1. op' = Exits
    BY <1>4 DEF Verifies
  <2> QED BY <1>1, <1>2, <2>1, Rests
<1> QED BY <1>3, <1>4

LEMMA RenameKeeps == CacheInv /\ Renames => CacheInv'
<1> SUFFICES ASSUME CacheInv, Renames PROVE CacheInv'
  OBVIOUS
<1>1. /\ op.step = "rename" /\ UNCHANGED <<manifest, active>>
      /\ files \in [Models -> SUBSET {"managed", "imported", "damaged"}]
      /\ partial \in [Models -> {"none", "whole", "damaged"}]
      /\ partial[op.name] = "whole" /\ CachedIsWhole
      /\ partial' = [partial EXCEPT ![op.name] = "none"] /\ op' = [op EXCEPT !.step = "records"]
  BY DEF CacheInv, CacheTypes, WholeInv, Renames
<1>2. files' = [files EXCEPT ![op.name] = @ \cup {"managed"}]
  BY <1>1 DEF Renames
<1>3. /\ files' \in [Models -> SUBSET {"managed", "imported", "damaged"}]
      /\ partial' \in [Models -> {"none", "whole", "damaged"}] /\ CachedIsWhole'
  BY <1>1, <1>2 DEF CachedIsWhole
<1>4. "records" \in Named /\ op.step \in Named /\ "records" # "rename"
  BY <1>1 DEF Named
<1> QED BY <1>1, <1>3, <1>4, GoesOn

-----------------------------------------------------------------------------
(* A command begins.                                                       *)

LEMMA BeginKeeps == CacheInv /\ Begins => CacheInv'
<1> SUFFICES ASSUME CacheInv, Begins PROVE CacheInv'
  OBVIOUS
<1>1. /\ op.kind = "idle" /\ UNCHANGED <<files, partial, manifest, active>>
      /\ files \in [Models -> SUBSET {"managed", "imported", "damaged"}]
      /\ partial \in [Models -> {"none", "whole", "damaged"}] /\ CachedIsWhole'
      /\ op \in OpRecords /\ op.step = "idle"
  BY DEF CacheInv, CacheTypes, OpInv, WholeInv, CachedIsWhole, Begins
<1>2. PICK kind \in Kinds \ {"install", "start"}, m \in Models, flag \in BOOLEAN :
         op' = [Exits EXCEPT !.kind = kind, !.name = m, !.flag = flag,
                             !.step = IF kind \in {"add", "use"} THEN "fit" ELSE "records"]
  BY DEF Begins
<1>3. PICK s : s = IF kind \in {"add", "use"} THEN "fit" ELSE "records"
  OBVIOUS
<1>4. /\ s \in Named /\ s \in Steps /\ s \notin {"rename", "idle"}
      /\ kind \in Edits \cup {"idle", "install", "start"} /\ kind \in Edits /\ kind # "idle"
  BY <1>3, CacheAssumption DEF Steps, Named, Edits
<1>5. op' = [Exits EXCEPT !.kind = kind, !.name = m, !.flag = flag, !.step = s]
  BY <1>2, <1>3, Zenon
<1>6. Exits \in OpRecords /\ Exits.setup = "none" /\ Exits.torn = op.torn
  BY <1>1, ExitsIs
<1>7. /\ op' \in OpRecords /\ op'.kind = kind /\ op'.name = m /\ op'.step = s
      /\ op'.setup = Exits.setup /\ op'.torn = Exits.torn
  BY <1>4, <1>5, <1>6, ZenonT(60) DEF OpRecords
<1>8. WholeInv'
  BY <1>1, <1>4, <1>7 DEF WholeInv
<1>9. ~Unsaved
  BY <1>1 DEF Unsaved
<1> QED BY <1>1, <1>4, <1>6, <1>7, <1>8, <1>9, Moves

(* The model in use is the configured one or the one whose manifest is active. *)
LEMMA InUse ==
    ASSUME CacheInv
    PROVE  active_model_name \in Models \cup {none}
<1>1. manifest \in Caches /\ OneActive(manifest) /\ active \in Models \cup {none}
  BY DEF CacheInv, CacheTypes, MarkInv
<1>2. list_models \in Caches /\ OneActive(list_models) /\ DOMAIN list_models \subseteq Models
  BY <1>1, ListedIs, CacheIs DEF OneActive
<1>3. FirstActive(list_models, list_models) \in Models \cup {none}
  BY <1>2, FirstActiveIs
<1> QED BY <1>1, <1>3 DEF active_model_name

LEMMA SetUpKeeps == CacheInv /\ SetsUp => CacheInv'
<1> SUFFICES ASSUME CacheInv, SetsUp PROVE CacheInv'
  OBVIOUS
<1>1. /\ op.kind = "idle" /\ UNCHANGED <<files, partial, manifest, active>>
      /\ files \in [Models -> SUBSET {"managed", "imported", "damaged"}]
      /\ partial \in [Models -> {"none", "whole", "damaged"}] /\ CachedIsWhole'
      /\ op \in OpRecords /\ op.step = "idle" /\ active \in Models \cup {none}
  BY DEF CacheInv, CacheTypes, OpInv, WholeInv, CachedIsWhole, SetsUp
<1>2. ~Unsaved
  BY <1>1 DEF Unsaved
<1>3. Exits \in OpRecords /\ Exits.setup = "none" /\ Exits.torn = op.torn
  BY <1>1, ExitsIs
<1>4. CASE active_model_name # none /\ op' = [Exits EXCEPT !.kind = "use", !.name = active_model_name,
                                                !.step = "fit", !.setup = "refresh"]
  <2>1. PICK n : n = active_model_name
    OBVIOUS
  <2>2. n \in Models \cup {none} /\ n \in Models
    BY <1>4, <2>1, InUse
  <2>3. op' = [Exits EXCEPT !.kind = "use", !.name = n, !.step = "fit", !.setup = "refresh"]
    BY <1>4, <2>1, Zenon
  <2>4. /\ "use" \in Edits \cup {"idle", "install", "start"} /\ "fit" \in Steps
        /\ "refresh" \in Setups /\ "use" \in Edits /\ "fit" \in Named
    BY DEF Edits, Steps, Named, Setups
  <2>5. /\ op' \in OpRecords /\ op'.kind = "use" /\ op'.name = n /\ op'.step = "fit"
        /\ op'.setup = "refresh" /\ op'.torn = Exits.torn
    BY <1>3, <2>2, <2>3, <2>4, ZenonT(60) DEF OpRecords
  <2>6. WholeInv'
    BY <1>1, <2>5 DEF WholeInv
  <2> QED BY <1>1, <1>2, <1>3, <2>2, <2>4, <2>5, <2>6, Moves
<1>5. ASSUME NEW setup \in {"install", "start"},
             op' = [Exits EXCEPT !.kind = setup, !.step = "save", !.active = active]
      PROVE  CacheInv'
  <2>1. /\ setup \in Edits \cup {"idle", "install", "start"} /\ "save" \in Steps
        /\ setup \notin Edits /\ setup # "idle"
    BY DEF Edits, Steps
  <2>2. /\ op' \in OpRecords /\ op'.kind = setup /\ op'.step = "save" /\ op'.active = active
        /\ op'.setup = Exits.setup /\ op'.torn = Exits.torn
    BY <1>1, <1>3, <1>5, <2>1, ZenonT(60) DEF OpRecords
  <2>3. CacheTypes' /\ WholeInv' /\ MarkInv'
    BY <1>1, <2>2 DEF CacheInv, CacheTypes, WholeInv, MarkInv, OneActive
  <2>4. OpInv'
    BY <1>3, <2>1, <2>2 DEF OpInv, Named
  <2>5. WriteInv' /\ StartInv'
    BY <2>2 DEF WriteInv, StartInv
  <2>6. ~op.torn /\ active # none => Chosen(manifest, active)
    BY <1>2 DEF CacheInv, SaveInv
  <2>7. ~op.torn /\ active # none => Chosen(manifest, active)'
    BY <1>1, <2>6 DEF Chosen
  <2>8. SaveInv'
    BY <1>1, <1>3, <2>1, <2>2, <2>7 DEF SaveInv
  <2> QED BY <2>3, <2>4, <2>5, <2>8 DEF CacheInv
<1>6. ASSUME NEW setup \in {"install", "start"}, active_model_name = none,
             NEW choice \in prompt_model_selection,
             op' = [Exits EXCEPT !.kind = choice[1], !.name = choice[2],
                                 !.flag = choice[1] = "import",
                                 !.step = IF choice[1] = "use" THEN "fit" ELSE "records",
                                 !.setup = setup]
      PROVE  CacheInv'
  <2>1. PICK k, n, s, flag : /\ k = choice[1] /\ n = choice[2] /\ flag = (choice[1] = "import")
                             /\ s = IF choice[1] = "use" THEN "fit" ELSE "records"
    OBVIOUS
  <2>2. op' = [Exits EXCEPT !.kind = k, !.name = n, !.flag = flag, !.step = s, !.setup = setup]
    BY <1>6, <2>1, Zenon
  <2>3. k \in {"use", "import"} /\ n \in Models /\ flag \in BOOLEAN /\ (k = "import" => flag)
    BY <2>1, CacheAssumption DEF prompt_model_selection
  <2>4. /\ k \in Edits \cup {"idle", "install", "start"} /\ n \in Models \cup {none} /\ s \in Steps
        /\ setup \in Setups /\ k \in Edits /\ s \in Named /\ s # "rename" /\ s # "idle" /\ k # "idle"
    BY <2>1, <2>3 DEF Edits, Steps, Named, Setups
  <2>5. /\ op' \in OpRecords /\ op'.kind = k /\ op'.name = n /\ op'.step = s
        /\ op'.setup = setup /\ op'.torn = Exits.torn /\ op'.flag = flag
    BY <1>3, <2>2, <2>3, <2>4, ZenonT(60) DEF OpRecords
  <2>6. WholeInv'
    BY <1>1, <2>4, <2>5 DEF WholeInv
  <2>7. active = none
    BY <1>6 DEF active_model_name
  <2> QED BY <1>1, <1>2, <1>3, <2>3, <2>4, <2>5, <2>6, <2>7, Moves
<1> QED
  <2>1. PICK setup \in Kinds \cap {"install", "start"} :
          \/ /\ active_model_name # none /\ setup = "start"
             /\ op' = [Exits EXCEPT !.kind = "use", !.name = active_model_name,
                                    !.step = "fit", !.setup = "refresh"]
          \/ /\ active_model_name = none \/ setup = "install"
             /\ op' = [Exits EXCEPT !.kind = setup, !.step = "save", !.active = active]
          \/ /\ active_model_name = none
             /\ \E choice \in prompt_model_selection :
                   op' = [Exits EXCEPT !.kind = choice[1], !.name = choice[2],
                                       !.flag = choice[1] = "import",
                                       !.step = IF choice[1] = "use" THEN "fit" ELSE "records",
                                       !.setup = setup]
    BY DEF SetsUp
  <2> QED BY <1>4, <1>5, <1>6, <2>1, Zenon

-----------------------------------------------------------------------------
(* A command makes a new list.                                             *)

(* The list that is read has at most one active model, and all of it is readable. *)
LEMMA ListedMarks ==
    ASSUME CacheInv
    PROVE  /\ list_models \in Caches /\ OneActive(list_models)
           /\ \A m \in DOMAIN list_models : list_models[m].readable
           /\ \A m \in DOMAIN manifest : manifest[m].active
                 => m \in DOMAIN list_models /\ list_models[m].active
<1>1. manifest \in Caches /\ MarkInv
  BY DEF CacheInv, CacheTypes
<1> QED BY <1>1, ListedIs DEF MarkInv, OneActive

LEMMA ListWritten ==
    ASSUME CacheInv, op.step = "records", NEW g \in Caches, Writes(g), OneActive(g),
           \A m \in DOMAIN g : g[m].readable, Handover(list_models, g, DOMAIN g),
           op.setup = "start" /\ (op.kind = "use" \/ ~g[op.name].rejected)
              => \E m \in DOMAIN g : g[m].active,
           UNCHANGED <<partial, manifest, active>>, CachedIsWhole',
           files' \in [Models -> SUBSET {"managed", "imported", "damaged"}]
    PROVE  CacheInv'
<1>1. PICK list, left, first : /\ list = list_models /\ left = DOMAIN g
                               /\ first = FirstActive(list_models, g)
  OBVIOUS
<1>2. op' = [op EXCEPT !.step = "write", !.old = list, !.new = g, !.left = left, !.active = first]
  BY <1>1, Zenon DEF Writes
<1>3. /\ list \in Caches /\ OneActive(list)
      /\ \A m \in DOMAIN manifest : manifest[m].active => m \in DOMAIN list /\ list[m].active
  BY <1>1, ListedMarks
<1>4. Chosen(g, first) /\ first \in DOMAIN g \cup {none} /\ DOMAIN g \subseteq Models
  BY <1>1, FirstActiveIs, CacheIs
<1>5. left \in SUBSET Models /\ first \in Models \cup {none} /\ "write" \in Steps
  BY <1>1, <1>4 DEF Steps
<1>6. /\ op \in OpRecords /\ active \in Models \cup {none} /\ manifest \in Caches
      /\ partial \in [Models -> {"none", "whole", "damaged"}]
      /\ op.kind \in Edits /\ op.kind # "idle"
      /\ op.setup = "refresh" => op.kind = "use"
      /\ op.setup # "none" => op.kind \in {"use", "import"}
      /\ op.setup \in {"install", "start"} => active = none /\ (op.kind = "import" => op.flag)
  BY DEF CacheInv, CacheTypes, OpInv, Named, Edits
<1>7. /\ op' \in OpRecords /\ op'.step = "write" /\ op'.old = list /\ op'.new = g
      /\ op'.left = left /\ op'.active = first /\ op'.kind = op.kind
      /\ op'.name = op.name /\ op'.flag = op.flag /\ op'.setup = op.setup
  BY <1>2, <1>3, <1>5, <1>6, ZenonT(60) DEF OpRecords
<1>8. CacheTypes'
  BY <1>6, <1>7 DEF CacheTypes
<1>9. OpInv'
  BY <1>6, <1>7 DEF OpInv, Named
<1>10. WholeInv'
  BY <1>7 DEF WholeInv
<1>11. WriteInv'
  <2>1. Passing(manifest, list, g, left)
    BY <1>1, <1>3 DEF Passing
  <2> QED BY <1>1, <1>3, <1>4, <1>7, <2>1 DEF WriteInv, Passing, Handover
<1>12. StartInv'
  BY <1>4, <1>7 DEF StartInv, Chosen
<1>13. SaveInv' /\ MarkInv'
  BY <1>7 DEF CacheInv, SaveInv, Unsaved, MarkInv, OneActive
<1> QED BY <1>8, <1>9, <1>10, <1>11, <1>12, <1>13 DEF CacheInv

LEMMA AddKeeps == CacheInv /\ add_model => CacheInv'
<1> SUFFICES ASSUME CacheInv, add_model PROVE CacheInv'
  OBVIOUS
<1>1. /\ op.step = "records" /\ op.kind = "add" /\ UNCHANGED <<files, partial, manifest, active>>
      /\ files \in [Models -> SUBSET {"managed", "imported", "damaged"}] /\ CachedIsWhole'
      /\ op.name \in Models /\ op.setup = "none"
  BY DEF CacheInv, CacheTypes, OpInv, WholeInv, CachedIsWhole, add_model, Named
<1>2. PICK g : g = upsert_model(list_models, op.name, FALSE)
  OBVIOUS
<1>3. Writes(g)
  BY <1>2, Zenon DEF add_model
<1>4. /\ list_models \in Caches /\ OneActive(list_models)
      /\ \A m \in DOMAIN list_models : list_models[m].readable
  BY ListedMarks
<1>5. /\ g \in Caches /\ \A m \in DOMAIN g : g[m].readable
      /\ OneActive(g) /\ Handover(list_models, g, DOMAIN g)
  BY <1>1, <1>2, <1>4, UpsertMarks
<1> QED BY <1>1, <1>3, <1>5, ListWritten

LEMMA UseKeeps == CacheInv /\ use_model => CacheInv'
<1> SUFFICES ASSUME CacheInv, use_model PROVE CacheInv'
  OBVIOUS
<1>1. /\ op.step = "records" /\ op.kind = "use" /\ UNCHANGED <<files, partial, manifest, active>>
      /\ files \in [Models -> SUBSET {"managed", "imported", "damaged"}] /\ CachedIsWhole'
      /\ partial \in [Models -> {"none", "whole", "damaged"}] /\ op.name \in Models
  BY DEF CacheInv, CacheTypes, OpInv, WholeInv, CachedIsWhole, use_model, Named
<1>2. PICK g : g = upsert_model(list_models, op.name, TRUE)
  OBVIOUS
<1>3. Writes(g) \/ op' = Exits
  BY <1>2, Zenon DEF use_model
<1>4. /\ list_models \in Caches /\ OneActive(list_models)
      /\ \A m \in DOMAIN list_models : list_models[m].readable
  BY ListedMarks
<1>5. /\ g \in Caches /\ DOMAIN g = DOMAIN list_models \cup {op.name}
      /\ \A m \in DOMAIN g : g[m].readable
      /\ OneActive(g) /\ g[op.name].active /\ Handover(list_models, g, DOMAIN g)
  <2>1. PICK f, n, use : f = list_models /\ n = op.name /\ use = TRUE
    OBVIOUS
  <2>2. g = upsert_model(f, n, use)
    BY <1>2, <2>1, Zenon
  <2>3. f \in Caches /\ n \in Models /\ use \in BOOLEAN /\ OneActive(f) /\ \A m \in DOMAIN f : f[m].readable
    BY <1>1, <1>4, <2>1
  <2>4. /\ g \in Caches /\ DOMAIN g = DOMAIN f \cup {n}
        /\ \A m \in DOMAIN g : g[m].readable
        /\ OneActive(g) /\ (use => g[n].active) /\ Handover(f, g, DOMAIN g)
    BY <2>2, <2>3, UpsertMarks
  <2> QED BY <2>1, <2>4
<1>6. CASE Writes(g)
  BY <1>1, <1>5, <1>6, ListWritten
<1>7. CASE op' = Exits
  <2>1. ~Unsaved
    BY <1>1 DEF Unsaved
  <2> QED BY <1>1, <1>7, <2>1, Rests
<1> QED BY <1>3, <1>6, <1>7

LEMMA ImportKeeps == CacheInv /\ import_model => CacheInv'
<1> SUFFICES ASSUME CacheInv, import_model PROVE CacheInv'
  OBVIOUS
<1>1. /\ op.step = "records" /\ op.kind = "import" /\ UNCHANGED <<partial, manifest, active>>
      /\ files \in [Models -> SUBSET {"managed", "imported", "damaged"}] /\ CachedIsWhole
      /\ partial \in [Models -> {"none", "whole", "damaged"}] /\ op.name \in Models
      /\ op.flag \in BOOLEAN /\ (op.setup = "start" => op.flag)
  BY DEF CacheInv, CacheTypes, OpInv, WholeInv, import_model, Named, OpRecords
<1>2. CASE op' = Exits /\ UNCHANGED files
  <2>1. ~Unsaved /\ CachedIsWhole'
    BY <1>1, <1>2 DEF Unsaved, CachedIsWhole
  <2> QED BY <1>1, <1>2, <2>1, Rests
<1>3. ASSUME NEW rejected \in BOOLEAN, files' = [files EXCEPT ![op.name] = @ \cup {"imported"}],
             Writes(upsert_imported_model(list_models, op.name, op.flag, rejected))
      PROVE  CacheInv'
  <2>1. PICK g : g = upsert_imported_model(list_models, op.name, op.flag, rejected)
    OBVIOUS
  <2>2. Writes(g)
    BY <1>3, <2>1, Zenon
  <2>3. /\ list_models \in Caches /\ OneActive(list_models)
        /\ \A m \in DOMAIN list_models : list_models[m].readable
    BY ListedMarks
  <2>4. /\ g \in Caches /\ DOMAIN g = DOMAIN list_models \cup {op.name}
        /\ \A m \in DOMAIN g : g[m].readable
        /\ OneActive(g) /\ (g[op.name].rejected <=> rejected)
        /\ op.flag /\ ~rejected => g[op.name].active
        /\ Handover(list_models, g, DOMAIN g)
    <3>1. PICK f, n, use, out : /\ f = list_models /\ n = op.name
                               /\ use = op.flag /\ out = rejected
      OBVIOUS
    <3>2. g = upsert_imported_model(f, n, use, out)
      BY <2>1, <3>1, Zenon
    <3>3. /\ f \in Caches /\ n \in Models /\ use \in BOOLEAN /\ out \in BOOLEAN
          /\ OneActive(f) /\ \A m \in DOMAIN f : f[m].readable
      BY <1>1, <2>3, <3>1
    <3>4. /\ g \in Caches /\ DOMAIN g = DOMAIN f \cup {n}
          /\ \A m \in DOMAIN g : g[m].readable
          /\ OneActive(g) /\ (g[n].rejected <=> out)
          /\ use /\ ~out => g[n].active
          /\ Handover(f, g, DOMAIN g)
      BY <3>2, <3>3, ImportMarks
    <3> QED BY <3>1, <3>4
  <2>5. op.setup = "start" /\ (op.kind = "use" \/ ~g[op.name].rejected)
           => \E m \in DOMAIN g : g[m].active
    BY <1>1, <2>4
  <2>6. files' \in [Models -> SUBSET {"managed", "imported", "damaged"}] /\ CachedIsWhole'
    BY <1>1, <1>3 DEF CachedIsWhole
  <2> QED BY <1>1, <2>2, <2>4, <2>5, <2>6, ListWritten
<1> QED BY <1>2, <1>3 DEF import_model

(* A list that is left empty is not written: no model is active then. *)
LEMMA EmptySaved ==
    ASSUME CacheInv, op.step = "records", op' = [op EXCEPT !.step = "save", !.active = none],
           op.setup = "none", UNCHANGED <<partial, manifest, active>>, CachedIsWhole',
           files' \in [Models -> SUBSET {"managed", "imported", "damaged"}]
    PROVE  CacheInv'
<1>1. /\ op \in OpRecords /\ "save" \in Steps /\ none \in Models \cup {none}
      /\ op.kind \in Edits /\ op.kind # "idle" /\ active \in Models \cup {none}
      /\ manifest \in Caches /\ partial \in [Models -> {"none", "whole", "damaged"}]
  BY DEF CacheInv, CacheTypes, OpInv, Steps, Named, Edits
<1>2. /\ op' \in OpRecords /\ op'.step = "save" /\ op'.active = none /\ op'.kind = op.kind
      /\ op'.setup = "none"
  BY <1>1, ZenonT(60) DEF OpRecords
<1>3. CacheTypes' /\ OpInv' /\ WholeInv'
  BY <1>1, <1>2 DEF CacheTypes, OpInv, WholeInv, Named
<1>4. WriteInv' /\ StartInv' /\ SaveInv' /\ MarkInv'
  BY <1>1, <1>2 DEF WriteInv, StartInv, SaveInv, Unsaved, CacheInv, MarkInv, OneActive
<1> QED BY <1>3, <1>4 DEF CacheInv

(* remove_model and prune_models. *)
LEMMA TakenOut ==
    ASSUME CacheInv, op.step = "records", op.setup = "none", NEW gone,
           IF DOMAIN Without(list_models, gone) = {}
           THEN op' = [op EXCEPT !.step = "save", !.active = none]
           ELSE Writes(Without(list_models, gone)),
           UNCHANGED <<partial, manifest, active>>, CachedIsWhole',
           files' \in [Models -> SUBSET {"managed", "imported", "damaged"}]
    PROVE  CacheInv'
<1>1. PICK g : g = Without(list_models, gone)
  OBVIOUS
<1>2. op' = [op EXCEPT !.step = "save", !.active = none] \/ Writes(g)
  BY <1>1, Zenon
<1>3. /\ list_models \in Caches /\ OneActive(list_models)
      /\ \A m \in DOMAIN list_models : list_models[m].readable
  BY ListedMarks
<1>4. /\ g \in Caches /\ \A m \in DOMAIN g : g[m].readable
      /\ OneActive(g) /\ Handover(list_models, g, DOMAIN g)
  BY <1>1, <1>3, WithoutMarks
<1>5. CASE Writes(g)
  BY <1>4, <1>5, ListWritten
<1> QED BY <1>2, <1>5, EmptySaved

LEMMA RemoveKeeps == CacheInv /\ remove_model => CacheInv'
<1> SUFFICES ASSUME CacheInv, remove_model PROVE CacheInv'
  OBVIOUS
<1>1. /\ op.step = "records" /\ op.kind = "remove" /\ UNCHANGED <<partial, manifest, active>>
      /\ files \in [Models -> SUBSET {"managed", "imported", "damaged"}] /\ CachedIsWhole
      /\ partial \in [Models -> {"none", "whole", "damaged"}] /\ op.setup = "none"
  BY DEF CacheInv, CacheTypes, OpInv, WholeInv, remove_model
<1>2. CASE op' = Exits /\ UNCHANGED files
  <2>1. ~Unsaved /\ CachedIsWhole'
    BY <1>1, <1>2 DEF Unsaved, CachedIsWhole
  <2> QED BY <1>1, <1>2, <2>1, Rests
<1>3. ASSUME files' = [files EXCEPT ![op.name] = @ \ {"managed", "damaged"}],
             IF DOMAIN Without(list_models, {op.name}) = {}
             THEN op' = [op EXCEPT !.step = "save", !.active = none]
             ELSE Writes(Without(list_models, {op.name}))
      PROVE  CacheInv'
  <2>1. files' \in [Models -> SUBSET {"managed", "imported", "damaged"}] /\ CachedIsWhole'
    BY <1>1, <1>3 DEF CachedIsWhole
  <2> QED BY <1>1, <1>3, <2>1, TakenOut
<1> QED BY <1>2, <1>3 DEF remove_model

LEMMA PruneKeeps == CacheInv /\ prune_models => CacheInv'
<1> SUFFICES ASSUME CacheInv, prune_models PROVE CacheInv'
  OBVIOUS
<1>1. /\ op.step = "records" /\ op.kind = "prune" /\ UNCHANGED <<files, partial, manifest, active>>
      /\ files \in [Models -> SUBSET {"managed", "imported", "damaged"}] /\ CachedIsWhole'
      /\ partial \in [Models -> {"none", "whole", "damaged"}] /\ op.setup = "none"
  BY DEF CacheInv, CacheTypes, OpInv, WholeInv, CachedIsWhole, prune_models
<1>2. PICK gone : gone = DOMAIN list_models \ {active_model_name}
  OBVIOUS
<1>3. IF DOMAIN Without(list_models, gone) = {}
      THEN op' = [op EXCEPT !.step = "save", !.active = none]
      ELSE Writes(Without(list_models, gone))
  BY <1>2, Zenon DEF prune_models
<1> QED BY <1>1, <1>3, TakenOut

-----------------------------------------------------------------------------
(* The list is written.                                                    *)

(* Between two writes at most one manifest is active. *)
LEMMA PassingIsOne ==
    ASSUME NEW disk, NEW old, NEW new, NEW left, Passing(disk, old, new, left),
           OneActive(old), OneActive(new)
    PROVE  OneActive(disk)
<1>1. SUFFICES ASSUME NEW x \in DOMAIN disk, NEW y \in DOMAIN disk,
                      disk[x].active, disk[y].active
               PROVE  x = y
  BY DEF OneActive
<1>2. CASE x \in DOMAIN new \ left /\ y \in DOMAIN new \ left
  BY <1>1, <1>2 DEF Passing, OneActive
<1>3. CASE x \notin DOMAIN new \ left /\ y \notin DOMAIN new \ left
  BY <1>1, <1>3 DEF Passing, OneActive
<1>4. CASE x \notin DOMAIN new \ left /\ y \in DOMAIN new \ left
  BY <1>1, <1>4 DEF Passing, Handover
<1>5. CASE x \in DOMAIN new \ left /\ y \notin DOMAIN new \ left
  BY <1>1, <1>5 DEF Passing, Handover
<1> QED BY <1>2, <1>3, <1>4, <1>5

(* The next record is written: the order lets no mark overtake another. *)
LEMMA NextPasses ==
    ASSUME NEW disk \in Caches, NEW old \in Caches, NEW new \in Caches, NEW left,
           Passing(disk, old, new, left), OneActive(old), left \subseteq DOMAIN new,
           NEW m \in left, \A n \in left \ {m} : Precedes(old, m, n)
    PROVE  Passing(With(disk, m, new[m]), old, new, left \ {m})
<1> DEFINE now == With(disk, m, new[m])
<1>1. m \in Models /\ new[m] \in Records
  BY CacheIs
<1>2. /\ DOMAIN now = DOMAIN disk \cup {m} /\ now[m] = new[m]
      /\ \A n \in DOMAIN disk \ {m} : now[n] = disk[n]
  <2>1. PICK r : r = new[m]
    OBVIOUS
  <2>2. /\ DOMAIN With(disk, m, r) = DOMAIN disk \cup {m} /\ With(disk, m, r)[m] = r
        /\ \A n \in DOMAIN disk \ {m} : With(disk, m, r)[n] = disk[n]
    BY <1>1, <2>1, WithIs
  <2> QED BY <2>1, <2>2
<1> HIDE DEF now
<1>3. \A n \in DOMAIN new \ (left \ {m}) : n \in DOMAIN now /\ now[n] = new[n]
  BY <1>2 DEF Passing
<1>4. \A n \in DOMAIN now :
         now[n].active /\ n \notin DOMAIN new \ (left \ {m}) => n \in DOMAIN old /\ old[n].active
  BY <1>2 DEF Passing
<1>5. ASSUME NEW x \in DOMAIN old, NEW y \in DOMAIN new,
             old[x].active, new[y].active, x # y, y \notin left \ {m}, x \in left \ {m}
      PROVE  FALSE
  <2>1. CASE y = m
    <3>1. Precedes(old, m, x)
      BY <1>5
    <3>2. m \in DOMAIN old /\ ActiveFirst(old, m, x)
      BY <1>5, <3>1 DEF Precedes
    <3>3. old[m].active \in BOOLEAN /\ old[x].active \in BOOLEAN
      BY <1>5, <3>2, CacheIs DEF Records
    <3>4. old[m].active
      BY <1>5, <3>2, <3>3 DEF ActiveFirst
    <3> QED BY <1>5, <2>1, <3>2, <3>4 DEF OneActive
  <2>2. CASE y # m
    BY <1>5, <2>2 DEF Passing, Handover
  <2> QED BY <2>1, <2>2
<1>6. Handover(old, new, left \ {m})
  BY <1>5 DEF Passing, Handover
<1> QED BY <1>3, <1>4, <1>6 DEF Passing, now

LEMMA RecordKeeps ==
    ASSUME CacheInv, NEW m \in op.left, WritesRecord(m),
           UNCHANGED <<files, partial, active>>
    PROVE  CacheInv'
<1>1. /\ op.step = "write" /\ manifest' = With(manifest, m, op.new[m])
      /\ op' = [op EXCEPT !.left = @ \ {m}]
      /\ \A n \in op.left \ {m} : Precedes(op.old, m, n)
  BY DEF WritesRecord, IsNext
<1>2. /\ op \in OpRecords /\ manifest \in Caches /\ op.old \in Caches /\ op.new \in Caches
      /\ op.left \subseteq DOMAIN op.new /\ op.left \in SUBSET Models
      /\ OneActive(op.old) /\ Chosen(op.new, op.active)
      /\ \A n \in DOMAIN op.new : op.new[n].readable
      /\ Passing(manifest, op.old, op.new, op.left)
  BY <1>1 DEF CacheInv, CacheTypes, WriteInv, OpRecords
<1>3. /\ op' \in OpRecords /\ op'.step = "write" /\ op'.old = op.old /\ op'.new = op.new
      /\ op'.left = op.left \ {m} /\ op'.active = op.active /\ op'.kind = op.kind
      /\ op'.name = op.name /\ op'.flag = op.flag /\ op'.setup = op.setup
  <2>1. PICK left : left = op.left \ {m}
    OBVIOUS
  <2>2. op' = [op EXCEPT !.left = left] /\ left \in SUBSET Models
    BY <1>1, <1>2, <2>1
  <2>3. /\ op' \in OpRecords /\ op'.step = op.step /\ op'.old = op.old /\ op'.new = op.new
        /\ op'.left = left /\ op'.active = op.active /\ op'.kind = op.kind
        /\ op'.name = op.name /\ op'.flag = op.flag /\ op'.setup = op.setup
    BY <1>2, <2>2, ZenonT(60) DEF OpRecords
  <2> QED BY <1>1, <2>1, <2>3
<1>4. Passing(With(manifest, m, op.new[m]), op.old, op.new, op.left \ {m})
  BY <1>1, <1>2, NextPasses
<1>5. Passing(manifest', op.old, op.new, op.left \ {m})
  BY <1>1, <1>4
<1>6. OneActive(manifest')
  BY <1>2, <1>5, ChosenIsOne, PassingIsOne
<1>7. /\ manifest' \in Caches /\ DOMAIN manifest' = DOMAIN manifest \cup {m}
      /\ manifest'[m] = op.new[m] /\ \A n \in DOMAIN manifest \ {m} : manifest'[n] = manifest[n]
  <2>1. m \in Models /\ op.new[m] \in Records
    BY <1>2, CacheIs
  <2> QED BY <1>1, <1>2, <2>1, WithIs
<1>8. CacheTypes'
  BY <1>3, <1>7 DEF CacheInv, CacheTypes
<1>9. OpInv'
  BY <1>1, <1>3 DEF CacheInv, OpInv, Named
<1>10. WholeInv' /\ StartInv'
  BY <1>1, <1>3 DEF CacheInv, WholeInv, CachedIsWhole, StartInv
<1>11. WriteInv'
  <2>1. Passing(manifest, op.old, op.new, op.left)'
    BY <1>3, <1>5 DEF Passing, Handover
  <2> QED BY <1>2, <1>3, <2>1 DEF WriteInv, Chosen, OneActive
<1>12. SaveInv'
  BY <1>3 DEF SaveInv, Unsaved
<1>13. MarkInv'
  <2>1. \A n \in DOMAIN manifest : manifest[n].active => manifest[n].readable
    BY DEF CacheInv, MarkInv
  <2> QED BY <1>2, <1>6, <1>7, <2>1 DEF MarkInv, OneActive
<1> QED BY <1>8, <1>9, <1>10, <1>11, <1>12, <1>13 DEF CacheInv

LEMMA StaleKeeps ==
    ASSUME CacheInv, NEW m \in DOMAIN manifest \ DOMAIN op.new, DeletesStale(m),
           UNCHANGED <<files, partial, active>>
    PROVE  CacheInv'
<1>1. /\ op.step = "write" /\ manifest' = Without(manifest, {m}) /\ op' = op
  BY DEF DeletesStale
<1>2. /\ manifest \in Caches /\ OneActive(op.old) /\ Chosen(op.new, op.active)
      /\ \A n \in DOMAIN op.new : op.new[n].readable
      /\ op.left \subseteq DOMAIN op.new
      /\ Passing(manifest, op.old, op.new, op.left)
  BY <1>1 DEF CacheInv, CacheTypes, WriteInv
<1>3. /\ Without(manifest, {m}) \in Caches /\ DOMAIN Without(manifest, {m}) = DOMAIN manifest \ {m}
      /\ \A n \in DOMAIN manifest \ {m} : Without(manifest, {m})[n] = manifest[n]
  BY <1>2, WithoutIs
<1>4. /\ manifest' \in Caches /\ DOMAIN manifest' = DOMAIN manifest \ {m}
      /\ \A n \in DOMAIN manifest' : n \in DOMAIN manifest /\ manifest'[n] = manifest[n]
  BY <1>1, <1>3
<1>5. CacheTypes' /\ OpInv' /\ WholeInv' /\ StartInv'
  BY <1>1, <1>4 DEF CacheInv, CacheTypes, OpInv, WholeInv, CachedIsWhole, StartInv
<1>6. Passing(manifest', op.old, op.new, op.left)
  BY <1>2, <1>4 DEF Passing
<1>7. WriteInv'
  BY <1>1, <1>2, <1>6 DEF WriteInv, Passing, Handover, Chosen, OneActive
<1>8. SaveInv'
  BY <1>1 DEF SaveInv, Unsaved
<1>9. MarkInv'
  BY <1>4 DEF CacheInv, MarkInv, OneActive
<1> QED BY <1>5, <1>7, <1>8, <1>9 DEF CacheInv

(* Everything is written: the manifests are the new list. *)
LEMMA ListDone ==
    ASSUME CacheInv, op.step = "write", op.left = {}, DOMAIN manifest \subseteq DOMAIN op.new,
           op' = [op EXCEPT !.step = IF op.setup = "none" THEN "save" ELSE "applied",
                            !.old = noRecords],
           UNCHANGED <<files, partial, manifest, active>>
    PROVE  CacheInv'
<1>1. PICK s : s = IF op.setup = "none" THEN "save" ELSE "applied"
  OBVIOUS
<1>2. op' = [op EXCEPT !.step = s, !.old = noRecords]
  BY <1>1, Zenon
<1>3. op \in OpRecords /\ s \in Steps /\ noRecords \in Caches /\ op.kind \in Edits
  <2>1. resting \in OpRecords /\ resting.old = noRecords
    BY RestingIs
  <2> QED BY <1>1, <2>1 DEF CacheInv, CacheTypes, OpInv, OpRecords, Steps
<1>4. /\ op' \in OpRecords /\ op'.step = s /\ op'.new = op.new
      /\ op'.active = op.active /\ op'.kind = op.kind
      /\ op'.name = op.name /\ op'.flag = op.flag /\ op'.setup = op.setup
  BY <1>2, <1>3, ZenonT(60) DEF OpRecords
<1>5. Chosen(op.new, op.active) /\ Passing(manifest, op.old, op.new, op.left)
  BY DEF CacheInv, WriteInv
<1>6. DOMAIN manifest = DOMAIN op.new /\ \A m \in DOMAIN manifest : manifest[m] = op.new[m]
  BY <1>5 DEF Passing
<1>7. Chosen(manifest, op.active)
  BY <1>5, <1>6 DEF Chosen
<1>8. CacheTypes' /\ WholeInv' /\ MarkInv'
  BY <1>1, <1>4 DEF CacheInv, CacheTypes, WholeInv, CachedIsWhole, MarkInv, OneActive
<1>9. OpInv'
  <2>1. op.kind # "idle"
    BY <1>3 DEF Edits
  <2> QED BY <1>1, <1>3, <1>4, <2>1 DEF CacheInv, OpInv, Named
<1>10. WriteInv'
  BY <1>1, <1>4 DEF WriteInv
<1>11. StartInv'
  BY <1>4 DEF CacheInv, StartInv
<1>12. SaveInv'
  BY <1>1, <1>3, <1>4, <1>7 DEF SaveInv, Unsaved, Chosen
<1> QED BY <1>8, <1>9, <1>10, <1>11, <1>12 DEF CacheInv

LEMMA WriteKeeps == CacheInv /\ write_models => CacheInv'
<1> SUFFICES ASSUME CacheInv, write_models PROVE CacheInv'
  OBVIOUS
<1>1. UNCHANGED <<files, partial, active>>
  BY DEF write_models
<1>2. CASE \E m \in op.left : WritesRecord(m)
  BY <1>1, <1>2, RecordKeeps
<1>3. CASE \E m \in DOMAIN manifest \ DOMAIN op.new : DeletesStale(m)
  BY <1>1, <1>3, StaleKeeps
<1>4. CASE /\ op.step = "write" /\ op.left = {} /\ DOMAIN manifest \subseteq DOMAIN op.new
           /\ op' = [op EXCEPT !.step = IF op.setup = "none" THEN "save" ELSE "applied",
                              !.old = noRecords]
           /\ UNCHANGED manifest
  BY <1>1, <1>4, ListDone
<1> QED BY <1>2, <1>3, <1>4 DEF write_models

-----------------------------------------------------------------------------
(* The ends of a command, and the faults.                                  *)

LEMMA ApplyKeeps == CacheInv /\ apply_model_choice => CacheInv'
<1> SUFFICES ASSUME CacheInv, apply_model_choice PROVE CacheInv'
  OBVIOUS
<1>1. /\ op.step = "applied" /\ UNCHANGED <<files, partial, manifest, active>>
      /\ files \in [Models -> SUBSET {"managed", "imported", "damaged"}] /\ CachedIsWhole'
      /\ partial \in [Models -> {"none", "whole", "damaged"}] /\ op \in OpRecords
      /\ op.setup # "none" /\ op.kind \in Edits /\ Chosen(manifest, op.active)
      /\ (op.setup = "refresh" => op.kind = "use") /\ op.setup \in Setups
      /\ op.setup \in {"install", "start"} => active = none
      /\ op.kind \in {"use", "import"} /\ op.active \in Models \cup {none}
  BY DEF CacheInv, CacheTypes, OpInv, WholeInv, CachedIsWhole, SaveInv, OpRecords,
         apply_model_choice
<1>2. CASE op' = Exits /\ op.kind = "import"
  <2>1. active = none
    BY <1>1, <1>2 DEF Setups
  <2> QED BY <1>1, <1>2, <2>1, Rests
<1>3. CASE /\ op.setup = "start" /\ (op.kind = "use" \/ ~op.new[op.name].rejected)
           /\ op' = [op EXCEPT !.kind = "use", !.name = op.active, !.flag = FALSE,
                               !.step = "fit", !.setup = "refresh"]
  <2>1. PICK n : n = op.active
    OBVIOUS
  <2>2. n \in Models \cup {none} /\ n \in Models /\ active = none
    BY <1>1, <1>3, <2>1 DEF CacheInv, StartInv
  <2>3. op' = [op EXCEPT !.kind = "use", !.name = n, !.flag = FALSE, !.step = "fit",
                         !.setup = "refresh"]
    BY <1>3, <2>1, Zenon
  <2>4. /\ "use" \in Edits \cup {"idle", "install", "start"} /\ "fit" \in Steps
        /\ "refresh" \in Setups /\ "use" \in Edits /\ "fit" \in Named /\ FALSE \in BOOLEAN
    BY DEF Edits, Steps, Named, Setups
  <2>5. /\ op' \in OpRecords /\ op'.kind = "use" /\ op'.name = n /\ op'.step = "fit"
        /\ op'.setup = "refresh"
    BY <1>1, <2>2, <2>3, <2>4, ZenonT(60) DEF OpRecords
  <2>6. WholeInv'
    BY <1>1, <2>5 DEF WholeInv
  <2> QED BY <1>1, <2>2, <2>4, <2>5, <2>6, Moves
<1>4. CASE op' = [op EXCEPT !.step = "save"]
  <2>1. "save" \in Steps /\ op.kind # "idle"
    BY <1>1 DEF Steps
  <2>2. /\ op' \in OpRecords /\ op'.step = "save" /\ op'.kind = op.kind
        /\ op'.active = op.active /\ op'.setup = op.setup /\ op'.flag = op.flag
    BY <1>1, <1>4, <2>1, ZenonT(60) DEF OpRecords
  <2>3. CacheTypes' /\ WholeInv' /\ MarkInv'
    BY <1>1, <2>2 DEF CacheInv, CacheTypes, WholeInv, MarkInv, OneActive
  <2>4. OpInv'
    BY <1>1, <2>1, <2>2 DEF CacheInv, OpInv, Named
  <2>5. WriteInv' /\ StartInv' /\ SaveInv'
    BY <1>1, <2>2 DEF WriteInv, StartInv, SaveInv, Unsaved, Chosen
  <2> QED BY <2>3, <2>4, <2>5 DEF CacheInv
<1>5. \/ op' = Exits /\ op.kind = "import"
      \/ /\ op.setup = "start" /\ (op.kind = "use" \/ ~op.new[op.name].rejected)
         /\ op' = [op EXCEPT !.kind = "use", !.name = op.active, !.flag = FALSE,
                             !.step = "fit", !.setup = "refresh"]
      \/ op' = [op EXCEPT !.step = "save"]
  <2>1. CASE op.kind = "import" /\ op.new[op.name].rejected
    BY <2>1, Zenon DEF apply_model_choice
  <2>2. CASE ~(op.kind = "import" /\ op.new[op.name].rejected)
    <3>1. op.kind = "use" \/ ~op.new[op.name].rejected
      BY <1>1, <2>2
    <3>2. op' = IF op.setup = "start"
                THEN [op EXCEPT !.kind = "use", !.name = op.active, !.flag = FALSE,
                                !.step = "fit", !.setup = "refresh"]
                ELSE [op EXCEPT !.step = "save"]
      BY <2>2, Zenon DEF apply_model_choice
    <3> QED BY <3>1, <3>2, Zenon
  <2> QED BY <2>1, <2>2
<1> QED BY <1>2, <1>3, <1>4, <1>5

LEMMA SaveKeeps == CacheInv /\ Saves => CacheInv'
<1> SUFFICES ASSUME CacheInv, Saves PROVE CacheInv'
  OBVIOUS
<1>1. /\ op.step = "save" /\ active' = op.active /\ UNCHANGED <<files, partial, manifest>>
      /\ op \in OpRecords /\ op.active \in Models \cup {none} /\ op.kind # "idle"
  BY DEF CacheInv, CacheTypes, OpInv, OpRecords, Saves
<1>2. /\ op' \in OpRecords /\ op'.kind = "idle" /\ op'.step = "idle" /\ op'.setup = "none"
      /\ ~op'.torn => op.kind \in Edits \/ ~op.torn
  <2>1. \/ op' = resting /\ op.kind \notin {"install", "start"}
        \/ op' = Exits /\ op.kind \in {"install", "start"}
    BY DEF Saves
  <2>2. op.kind \in Edits \cup {"idle", "install", "start"}
    BY <1>1 DEF OpRecords
  <2>3. CASE op' = resting /\ op.kind \notin {"install", "start"}
    BY <1>1, <2>2, <2>3, RestingIs
  <2>4. CASE op' = Exits
    BY <1>1, <2>4, ExitsIs
  <2> QED BY <2>1, <2>3, <2>4
<1>3. CacheTypes' /\ WholeInv' /\ MarkInv'
  BY <1>1, <1>2 DEF CacheInv, CacheTypes, WholeInv, CachedIsWhole, MarkInv, OneActive
<1>4. OpInv' /\ WriteInv' /\ StartInv'
  BY <1>2 DEF OpInv, WriteInv, StartInv, Named
<1>5. ~op'.torn /\ op.active # none => Chosen(manifest, op.active)
  <2>1. CASE op.kind \in Edits
    BY <1>1, <2>1 DEF CacheInv, SaveInv
  <2>2. CASE op.kind \notin Edits
    BY <1>1, <1>2, <2>2 DEF CacheInv, SaveInv, Unsaved
  <2> QED BY <2>1, <2>2
<1>6. op'.step \notin {"save", "applied", "write"}
  BY <1>2
<1>7. SaveInv'
  BY <1>1, <1>5, <1>6 DEF SaveInv, Unsaved, Chosen
<1> QED BY <1>3, <1>4, <1>7 DEF CacheInv

(* A killed command leaves what it had written, and perhaps an unreadable manifest. *)
LEMMA KillKeeps == CacheInv /\ Killed => CacheInv'
<1> SUFFICES ASSUME CacheInv, Killed PROVE CacheInv'
  OBVIOUS
<1>1. UNCHANGED <<files, partial, active>> /\ op \in OpRecords /\ manifest \in Caches /\ MarkInv
  BY DEF CacheInv, CacheTypes, Killed
<1>2. /\ op' \in OpRecords /\ op'.kind = "idle" /\ op'.step = "idle" /\ op'.setup = "none"
      /\ op'.torn
  <2>1. op' = [resting EXCEPT !.torn = TRUE]
    BY DEF Killed
  <2> QED BY <2>1, RestingIs DEF OpRecords
<1>3. manifest' \in Caches /\ MarkInv'
  <2>1. CASE UNCHANGED manifest
    BY <1>1, <2>1 DEF MarkInv, OneActive
  <2>2. ASSUME NEW m \in op.left,
               manifest' = With(manifest, m, [blank EXCEPT !.readable = FALSE])
        PROVE  manifest' \in Caches /\ MarkInv'
    <3>1. PICK r : r = [blank EXCEPT !.readable = FALSE]
      OBVIOUS
    <3>2. r \in Records /\ ~r.active /\ m \in Models
      BY <1>1, <3>1, BlankIs DEF OpRecords
    <3>3. manifest' = With(manifest, m, r)
      BY <2>2, <3>1, Zenon
    <3>4. /\ With(manifest, m, r) \in Caches
          /\ DOMAIN With(manifest, m, r) = DOMAIN manifest \cup {m}
          /\ With(manifest, m, r)[m] = r
          /\ \A n \in DOMAIN manifest \ {m} : With(manifest, m, r)[n] = manifest[n]
      BY <1>1, <3>2, WithIs, ZenonT(60)
    <3>5. /\ manifest' \in Caches /\ DOMAIN manifest' = DOMAIN manifest \cup {m}
          /\ manifest'[m] = r /\ \A n \in DOMAIN manifest \ {m} : manifest'[n] = manifest[n]
      BY <3>3, <3>4
    <3> QED BY <1>1, <3>2, <3>5 DEF MarkInv, OneActive
  <2> QED BY <2>1, <2>2 DEF Killed
<1>4. CacheTypes' /\ WholeInv'
  BY <1>1, <1>2, <1>3 DEF CacheInv, CacheTypes, WholeInv, CachedIsWhole
<1>5. OpInv' /\ WriteInv' /\ StartInv' /\ SaveInv'
  BY <1>2 DEF OpInv, WriteInv, StartInv, SaveInv, Unsaved, Named
<1> QED BY <1>3, <1>4, <1>5 DEF CacheInv

LEMMA SourceKeeps == CacheInv /\ SourceDeleted => CacheInv'
<1> SUFFICES ASSUME CacheInv, SourceDeleted PROVE CacheInv'
  OBVIOUS
<1>1. UNCHANGED <<partial, manifest, active, op>>
  BY DEF SourceDeleted
<1>2. PICK m \in Models : files' = [files EXCEPT ![m] = @ \ {"imported"}]
  BY DEF SourceDeleted
<1>3. CacheTypes' /\ CachedIsWhole'
  BY <1>1, <1>2 DEF CacheInv, CacheTypes, WholeInv, CachedIsWhole
<1>4. /\ OpInv' /\ WholeInv' /\ WriteInv' /\ StartInv' /\ SaveInv' /\ MarkInv'
  BY <1>1, <1>3 DEF CacheInv, OpInv, WholeInv, WriteInv, StartInv, SaveInv, Unsaved, MarkInv,
                    Passing, Handover, Chosen, OneActive
<1> QED BY <1>3, <1>4 DEF CacheInv

LEMMA CacheInitially == CacheInit => CacheInv
<1> SUFFICES ASSUME CacheInit PROVE CacheInv
  OBVIOUS
<1>1. PICK had \in Official \cup {none} :
         /\ files = [m \in Models |-> IF m = had THEN {"managed"} ELSE {}]
         /\ manifest = [m \in {had} \ {none} |-> [blank EXCEPT !.active = TRUE]]
         /\ active = had
  BY DEF CacheInit
<1>2. partial = [m \in Models |-> "none"] /\ op = resting
  BY DEF CacheInit
<1>3. PICK S : S = {had} \ {none}
  OBVIOUS
<1>4. S \in SUBSET Models /\ had \in Models \cup {none} /\ (had # none => S = {had}) /\ (had = none => S = {})
  BY <1>3, CacheAssumption
<1>5. manifest \in [S -> Records] /\ \A m \in S : manifest[m].active /\ manifest[m].readable
  BY <1>1, <1>3, BlankIs
<1>6. CacheTypes
  BY <1>1, <1>2, <1>4, <1>5, IsCache, RestingIs DEF CacheTypes
<1>7. OpInv /\ WriteInv /\ StartInv
  BY <1>2, RestingIs DEF OpInv, WriteInv, StartInv, Named
<1>8. WholeInv
  BY <1>1, <1>2, RestingIs DEF WholeInv, CachedIsWhole
<1>9. Chosen(manifest, had) /\ OneActive(manifest)
  BY <1>4, <1>5 DEF Chosen, OneActive
<1>10. SaveInv /\ MarkInv
  BY <1>1, <1>2, <1>5, <1>9, RestingIs DEF SaveInv, Unsaved, MarkInv
<1> QED BY <1>6, <1>7, <1>8, <1>10 DEF CacheInv

LEMMA CacheStepKeeps == CacheInv /\ [CacheStep]_cacheVars => CacheInv'
<1> SUFFICES ASSUME CacheInv, [CacheStep]_cacheVars PROVE CacheInv'
  OBVIOUS
<1>1. CASE UNCHANGED cacheVars
  BY <1>1 DEF CacheInv, CacheTypes, OpInv, WholeInv, CachedIsWhole, WriteInv, StartInv, SaveInv,
              Unsaved, MarkInv, Passing, Handover, Chosen, OneActive, cacheVars
<1>2. CASE CacheStep
  BY <1>2, BeginKeeps, SetUpKeeps, FitKeeps, PrefetchKeeps, DownloadKeeps, VerifyKeeps,
     RenameKeeps, AddKeeps, UseKeeps, ImportKeeps, RemoveKeeps, PruneKeeps, WriteKeeps,
     ApplyKeeps, SaveKeeps, KillKeeps, SourceKeeps DEF CacheStep
<1> QED BY <1>1, <1>2

-----------------------------------------------------------------------------
(* The theorems about the cache.                                           *)

(* The invariant of the model cache: types, the progress of the command and what
   the manifests and the configuration say at each of its steps. *)
THEOREM CacheInvariant == CacheSpec => []CacheInv
<1> QED BY CacheInitially, CacheStepKeeps, PTL DEF CacheSpec

(* A file under a model's name in the cache is the whole file of the catalogue, for
   any number of killed commands (download_model_from_option, verify_sha256). *)
THEOREM CacheHoldsWholeFiles == CacheSpec => []CachedIsWhole
<1>1. CacheInv => CachedIsWhole
  BY DEF CacheInv, WholeInv
<1> QED BY <1>1, CacheInvariant, PTL

LEMMA OneMark == CacheInv => AtMostOneActive
<1> SUFFICES ASSUME CacheInv PROVE AtMostOneActive
  OBVIOUS
<1>1. OneActive(manifest)
  BY DEF CacheInv, MarkInv
<1>2. PICK on : on = {m \in DOMAIN manifest : manifest[m].active}
  OBVIOUS
<1>3. CASE on = {}
  BY <1>2, <1>3, FS_EmptySet DEF AtMostOneActive
<1>4. CASE on # {}
  <2>1. PICK x : on = {x}
    BY <1>1, <1>2, <1>4 DEF OneActive
  <2> QED BY <1>2, <2>1, FS_Singleton DEF AtMostOneActive
<1> QED BY <1>3, <1>4

(* At most one manifest is active, also between two writes and wherever a command
   was killed: the order of list_models lets no mark overtake another (write_models). *)
THEOREM OneActiveManifest == CacheSpec => []AtMostOneActive
<1> QED BY CacheInvariant, OneMark, PTL

(* Between commands the configuration names the model whose manifest is active,
   unless a command was killed since the last that completed (sync_config_models). *)
THEOREM ConfigurationAgrees == CacheSpec => []SelectionAgrees
<1>1. CacheInv => SelectionAgrees
  <2> SUFFICES ASSUME CacheInv, op.kind = "idle", ~op.torn, active # none
               PROVE  /\ active \in DOMAIN manifest
                      /\ \A m \in DOMAIN manifest : manifest[m].active <=> m = active
    BY DEF SelectionAgrees
  <2>1. op.step = "idle"
    BY DEF CacheInv, OpInv
  <2> QED BY <2>1 DEF CacheInv, SaveInv, Unsaved, Chosen
<1> QED BY <1>1, CacheInvariant, PTL

-----------------------------------------------------------------------------
(* Without a fault.                                                        *)

\* No command was killed and no source file deleted: the files that the manifests
\* name are there.
FaultInv ==
    /\ faults \in Nat
    /\ op.torn => faults # 0
    /\ faults = 0 =>
          /\ \A m \in DOMAIN manifest : manifest[m].source => "imported" \in files[m]
          /\ op.step = "write" =>
                \A m \in DOMAIN op.new : op.new[m].source => "imported" \in files[m]

(* The steps that neither make a list nor write one, nor are faults. *)
QuietStep ==
    \/ Begins \/ SetsUp \/ ensure_catalog_model_fits \/ Prefetches \/ Downloads \/ Verifies
    \/ Renames \/ apply_model_choice \/ Saves

LEMMA QuietIs ==
    ASSUME CacheInv, QuietStep
    PROVE  /\ op'.step # "write" /\ (op'.torn => op.torn)
           /\ UNCHANGED faults /\ UNCHANGED manifest
           /\ \A m \in Models : "imported" \in files[m] => "imported" \in files'[m]
<1>1. op \in OpRecords /\ files \in [Models -> SUBSET {"managed", "imported", "damaged"}]
  BY DEF CacheInv, CacheTypes
<1>2. /\ Exits \in OpRecords /\ Exits.step = "idle" /\ Exits.torn = op.torn
      /\ resting.step = "idle" /\ ~resting.torn
  BY <1>1, ExitsIs, RestingIs
<1>3. CASE Begins
  <2>1. PICK kind, m, flag :
         op' = [Exits EXCEPT !.kind = kind, !.name = m, !.flag = flag,
                             !.step = IF kind \in {"add", "use"} THEN "fit" ELSE "records"]
    BY <1>3 DEF Begins
  <2>2. PICK s : s = IF kind \in {"add", "use"} THEN "fit" ELSE "records"
    OBVIOUS
  <2>3. op' = [Exits EXCEPT !.kind = kind, !.name = m, !.flag = flag, !.step = s]
    BY <2>1, <2>2, Zenon
  <2>4. op'.step = s /\ op'.torn = Exits.torn
    BY <1>2, <2>3, ZenonT(60) DEF OpRecords
  <2> QED BY <1>2, <1>3, <2>2, <2>4 DEF Begins
<1>4. CASE SetsUp
  <2>1. PICK setup :
          \/ op' = [Exits EXCEPT !.kind = "use", !.name = active_model_name,
                                 !.step = "fit", !.setup = "refresh"]
          \/ op' = [Exits EXCEPT !.kind = setup, !.step = "save", !.active = active]
          \/ \E choice \in prompt_model_selection :
                   op' = [Exits EXCEPT !.kind = choice[1], !.name = choice[2],
                                       !.flag = choice[1] = "import",
                                       !.step = IF choice[1] = "use" THEN "fit" ELSE "records",
                                       !.setup = setup]
    BY <1>4, Zenon DEF SetsUp
  <2>2. CASE op' = [Exits EXCEPT !.kind = "use", !.name = active_model_name,
                                 !.step = "fit", !.setup = "refresh"]
    <3>1. op'.step = "fit" /\ op'.torn = Exits.torn
      BY <1>2, <2>2, ZenonT(60) DEF OpRecords
    <3> QED BY <1>2, <1>4, <3>1 DEF SetsUp
  <2>3. CASE op' = [Exits EXCEPT !.kind = setup, !.step = "save", !.active = active]
    <3>1. op'.step = "save" /\ op'.torn = Exits.torn
      BY <1>2, <2>3, ZenonT(60) DEF OpRecords
    <3> QED BY <1>2, <1>4, <3>1 DEF SetsUp
  <2>4. ASSUME NEW choice,
               op' = [Exits EXCEPT !.kind = choice[1], !.name = choice[2],
                                   !.flag = choice[1] = "import",
                                   !.step = IF choice[1] = "use" THEN "fit" ELSE "records",
                                   !.setup = setup]
        PROVE  op'.step # "write" /\ (op'.torn => op.torn)
    <3>1. PICK f, s : f = (choice[1] = "import") /\ s = IF choice[1] = "use" THEN "fit" ELSE "records"
      OBVIOUS
    <3>2. op' = [Exits EXCEPT !.kind = choice[1], !.name = choice[2], !.flag = f, !.step = s,
                              !.setup = setup]
      BY <2>4, <3>1, Zenon
    <3>3. op'.step = s /\ op'.torn = Exits.torn
      BY <1>2, <3>2, ZenonT(60) DEF OpRecords
    <3> QED BY <1>2, <3>1, <3>3
  <2>5. op'.step # "write" /\ (op'.torn => op.torn)
    BY <2>1, <2>2, <2>3, <2>4, Zenon
  <2> QED BY <1>4, <2>5 DEF SetsUp
<1>5. CASE ensure_catalog_model_fits
  <2>1. \/ op' = Exits
        \/ op' = [op EXCEPT !.step = IF op.setup = "none" THEN "prefetch" ELSE "download"]
    BY <1>5 DEF ensure_catalog_model_fits
  <2>2. op'.step # "write" /\ op'.torn = op.torn
    BY <1>1, <1>2, <2>1 DEF OpRecords
  <2> QED BY <1>5, <2>2 DEF ensure_catalog_model_fits
<1>6. CASE Prefetches
  <2>1. op'.step # "write" /\ op'.torn = op.torn
    BY <1>1, <1>2, <1>6 DEF OpRecords, Prefetches
  <2> QED BY <1>6, <2>1 DEF Prefetches
<1>7. CASE Downloads
  <2>1. \/ op' = Exits \/ op' = [op EXCEPT !.step = "records"] \/ op' = [op EXCEPT !.step = "verify"]
    BY <1>7 DEF Downloads
  <2>2. op'.step # "write" /\ op'.torn = op.torn
    BY <1>1, <1>2, <2>1 DEF OpRecords
  <2> QED BY <1>7, <2>2 DEF Downloads
<1>8. CASE Verifies
  <2>1. op'.step # "write" /\ op'.torn = op.torn
    BY <1>1, <1>2, <1>8 DEF OpRecords, Verifies
  <2> QED BY <1>8, <2>1 DEF Verifies
<1>9. CASE Renames
  <2>1. op'.step # "write" /\ op'.torn = op.torn
    BY <1>1, <1>9 DEF OpRecords, Renames
  <2>2. \A m \in Models : "imported" \in files[m] => "imported" \in files'[m]
    BY <1>1, <1>9 DEF Renames
  <2> QED BY <1>9, <2>1, <2>2 DEF Renames
<1>10. CASE apply_model_choice
  <2>1. \/ op' = Exits
        \/ op' = [op EXCEPT !.kind = "use", !.name = op.active, !.flag = FALSE,
                            !.step = "fit", !.setup = "refresh"]
        \/ op' = [op EXCEPT !.step = "save"]
    BY <1>10, Zenon DEF apply_model_choice
  <2>2. CASE op' = [op EXCEPT !.kind = "use", !.name = op.active, !.flag = FALSE,
                            !.step = "fit", !.setup = "refresh"]
    <3>1. op'.step = "fit" /\ op'.torn = op.torn
      BY <1>1, <2>2, ZenonT(60) DEF OpRecords
    <3> QED BY <1>10, <3>1 DEF apply_model_choice
  <2>3. CASE op' = Exits \/ op' = [op EXCEPT !.step = "save"]
    <3>1. op'.step # "write" /\ op'.torn = op.torn
      BY <1>1, <1>2, <2>3 DEF OpRecords
    <3> QED BY <1>10, <3>1 DEF apply_model_choice
  <2> QED BY <2>1, <2>2, <2>3, Zenon
<1>11. CASE Saves
  <2>1. op' = resting \/ op' = Exits
    BY <1>11 DEF Saves
  <2> QED BY <1>2, <1>11, <2>1 DEF Saves
<1> QED BY <1>3, <1>4, <1>5, <1>6, <1>7, <1>8, <1>9, <1>10, <1>11 DEF QuietStep

(* A new list names no file that is not there. *)
LEMMA ListIsThere ==
    ASSUME CacheInv, FaultInv, NEW g, Writes(g),
           \A m \in DOMAIN g : g[m].source =>
              \/ m \in DOMAIN list_models /\ list_models[m].source
              \/ "imported" \in files'[m],
           \A m \in Models : "imported" \in files[m] => "imported" \in files'[m],
           UNCHANGED <<manifest, faults>>
    PROVE  FaultInv'
<1>1. op \in OpRecords /\ manifest \in Caches /\ DOMAIN manifest \subseteq Models
  BY CacheIs DEF CacheInv, CacheTypes
<1>2. PICK list, left, first : /\ list = list_models /\ left = DOMAIN g
                               /\ first = FirstActive(list_models, g)
  OBVIOUS
<1>3. op' = [op EXCEPT !.step = "write", !.old = list, !.new = g, !.left = left, !.active = first]
  BY <1>2, Zenon DEF Writes
<1>4. op'.new = g /\ op'.torn = op.torn
  BY <1>1, <1>3, ZenonT(60) DEF OpRecords
<1>5. \A m \in DOMAIN list_models : m \in DOMAIN manifest /\ list_models[m] = manifest[m]
  BY <1>1, ListedIs
<1>6. ASSUME faults = 0
      PROVE  /\ \A m \in DOMAIN manifest : manifest[m].source => "imported" \in files'[m]
             /\ \A m \in DOMAIN g : g[m].source => "imported" \in files'[m]
  <2>1. \A m \in DOMAIN manifest : manifest[m].source => "imported" \in files[m]
    BY <1>6 DEF FaultInv
  <2> QED BY <1>1, <1>5, <2>1
<1> QED BY <1>4, <1>6 DEF FaultInv

(* A list that is not written. *)
LEMMA NoneIsThere ==
    ASSUME CacheInv, FaultInv, op'.step # "write", op'.torn => op.torn,
           \A m \in Models : "imported" \in files[m] => "imported" \in files'[m],
           UNCHANGED <<manifest, faults>>
    PROVE  FaultInv'
<1>1. DOMAIN manifest \subseteq Models
  BY CacheIs DEF CacheInv, CacheTypes
<1> QED BY <1>1 DEF FaultInv

LEMMA EditFaults ==
    ASSUME CacheInv, FaultInv,
           add_model \/ use_model \/ import_model \/ remove_model \/ prune_models
    PROVE  FaultInv'
<1>1. /\ op \in OpRecords /\ files \in [Models -> SUBSET {"managed", "imported", "damaged"}]
      /\ op.step = "records" /\ op.name \in Models /\ op.flag \in BOOLEAN
      /\ UNCHANGED <<manifest, faults>>
  BY DEF CacheInv, CacheTypes, OpInv, Named, OpRecords, add_model, use_model, import_model,
         remove_model, prune_models
<1>2. Exits.step = "idle" /\ Exits.torn = op.torn
  BY <1>1, ExitsIs
<1>3. /\ list_models \in Caches /\ OneActive(list_models)
      /\ \A m \in DOMAIN list_models : list_models[m].readable
  BY ListedMarks
<1>4. CASE op' = Exits /\ UNCHANGED files
  BY <1>1, <1>2, <1>4, NoneIsThere
<1>5. ASSUME op' = [op EXCEPT !.step = "save", !.active = none],
             \A m \in Models : "imported" \in files[m] => "imported" \in files'[m]
      PROVE  FaultInv'
  <2>1. op'.step = "save" /\ op'.torn = op.torn
    BY <1>1, <1>5, ZenonT(60) DEF OpRecords
  <2> QED BY <1>1, <1>5, <2>1, NoneIsThere
<1>6. ASSUME NEW use \in BOOLEAN, Writes(upsert_model(list_models, op.name, use)), UNCHANGED files
      PROVE  FaultInv'
  <2>1. PICK f, n, u, g : f = list_models /\ n = op.name /\ u = use /\ g = upsert_model(f, n, u)
    OBVIOUS
  <2>2. Writes(g)
    BY <1>6, <2>1, Zenon
  <2>3. /\ f \in Caches /\ n \in Models /\ u \in BOOLEAN
        /\ OneActive(f) /\ \A m \in DOMAIN f : f[m].readable
    BY <1>1, <1>3, <1>6, <2>1
  <2>4. \A m \in DOMAIN g : g[m].source => m \in DOMAIN f /\ f[m].source
    BY <2>1, <2>3, UpsertMarks, ZenonT(60)
  <2>5. \A m \in DOMAIN g : g[m].source => m \in DOMAIN list_models /\ list_models[m].source
    BY <2>1, <2>4
  <2> QED BY <1>1, <1>6, <2>2, <2>5, ListIsThere
<1>7. ASSUME NEW gone, Writes(Without(list_models, gone)),
             \A m \in Models : "imported" \in files[m] => "imported" \in files'[m]
      PROVE  FaultInv'
  <2>1. PICK f, g : f = list_models /\ g = Without(f, gone)
    OBVIOUS
  <2>2. Writes(g)
    BY <1>7, <2>1, Zenon
  <2>3. \A m \in DOMAIN g : g[m].source => m \in DOMAIN f /\ f[m].source
    BY <1>3, <2>1, WithoutMarks
  <2>4. \A m \in DOMAIN g : g[m].source => m \in DOMAIN list_models /\ list_models[m].source
    BY <2>1, <2>3
  <2> QED BY <1>1, <1>7, <2>2, <2>4, ListIsThere
<1>8. CASE add_model
  <2>1. Writes(upsert_model(list_models, op.name, FALSE)) /\ UNCHANGED files
    BY <1>8, Zenon DEF add_model
  <2> QED BY <1>6, <2>1, Zenon
<1>9. CASE use_model
  <2>1. UNCHANGED files /\ (Writes(upsert_model(list_models, op.name, TRUE)) \/ op' = Exits)
    BY <1>9, Zenon DEF use_model
  <2>2. TRUE \in BOOLEAN
    OBVIOUS
  <2> QED BY <1>4, <1>6, <2>1, <2>2, Zenon
<1>10. CASE import_model
  <2>1. ASSUME NEW rejected \in BOOLEAN, files' = [files EXCEPT ![op.name] = @ \cup {"imported"}],
               Writes(upsert_imported_model(list_models, op.name, op.flag, rejected))
        PROVE  FaultInv'
    <3>1. PICK f, n, use, out : /\ f = list_models /\ n = op.name
                               /\ use = op.flag /\ out = rejected
      OBVIOUS
    <3>2. PICK g : g = upsert_imported_model(f, n, use, out) /\ Writes(g)
      BY <2>1, <3>1, Zenon
    <3>3. /\ f \in Caches /\ n \in Models /\ use \in BOOLEAN /\ out \in BOOLEAN
          /\ OneActive(f) /\ \A m \in DOMAIN f : f[m].readable
      BY <1>1, <1>3, <2>1, <3>1
    <3>4. \A m \in DOMAIN g \ {n} : g[m].source => m \in DOMAIN f /\ f[m].source
      BY <3>2, <3>3, ImportMarks
    <3>5. /\ "imported" \in files'[op.name]
          /\ \A m \in Models : "imported" \in files[m] => "imported" \in files'[m]
      BY <1>1, <2>1
    <3>6. \A m \in DOMAIN g : g[m].source =>
             \/ m \in DOMAIN list_models /\ list_models[m].source
             \/ "imported" \in files'[m]
      BY <3>1, <3>4, <3>5
    <3> QED BY <1>1, <3>2, <3>5, <3>6, ListIsThere
  <2> QED BY <1>4, <1>10, <2>1 DEF import_model
<1>11. CASE remove_model
  <2>1. CASE files' = [files EXCEPT ![op.name] = @ \ {"managed", "damaged"}]
    <3>1. \A m \in Models : "imported" \in files[m] => "imported" \in files'[m]
      BY <1>1, <2>1
    <3>2. \/ op' = Exits /\ UNCHANGED files
          \/ op' = [op EXCEPT !.step = "save", !.active = none]
          \/ Writes(Without(list_models, {op.name}))
      BY <1>11, Zenon DEF remove_model
    <3> QED BY <1>4, <1>5, <1>7, <3>1, <3>2, Zenon
  <2>2. CASE op' = Exits /\ UNCHANGED files
    BY <1>4, <2>2
  <2> QED BY <1>11, <2>1, <2>2 DEF remove_model
<1>12. CASE prune_models
  <2>1. UNCHANGED files
    BY <1>12 DEF prune_models
  <2>2. \/ op' = [op EXCEPT !.step = "save", !.active = none]
        \/ Writes(Without(list_models, DOMAIN list_models \ {active_model_name}))
    BY <1>12, Zenon DEF prune_models
  <2>3. \A m \in Models : "imported" \in files[m] => "imported" \in files'[m]
    BY <2>1
  <2> QED BY <1>5, <1>7, <2>2, <2>3, Zenon
<1> QED BY <1>8, <1>9, <1>10, <1>11, <1>12

LEMMA WriteFaults ==
    ASSUME CacheInv, FaultInv, write_models
    PROVE  FaultInv'
<1>1. op \in OpRecords /\ manifest \in Caches /\ UNCHANGED <<files, faults>>
  BY DEF CacheInv, CacheTypes, write_models
<1>2. ASSUME NEW m \in op.left, WritesRecord(m)
      PROVE  FaultInv'
  <2>1. /\ op.step = "write" /\ manifest' = With(manifest, m, op.new[m])
        /\ op' = [op EXCEPT !.left = @ \ {m}] /\ op.left \subseteq DOMAIN op.new
        /\ op.new \in Caches
    BY <1>1, <1>2 DEF WritesRecord, CacheInv, WriteInv, OpRecords
  <2>2. op'.step = op.step /\ op'.new = op.new /\ op'.torn = op.torn
    BY <1>1, <2>1 DEF OpRecords
  <2>3. m \in Models /\ op.new[m] \in Records /\ m \in DOMAIN op.new
    BY <1>2, <2>1, CacheIs
  <2>4. /\ DOMAIN manifest' = DOMAIN manifest \cup {m} /\ manifest'[m] = op.new[m]
        /\ \A n \in DOMAIN manifest \ {m} : manifest'[n] = manifest[n]
    <3>1. PICK r : r = op.new[m]
      OBVIOUS
    <3>2. /\ DOMAIN With(manifest, m, r) = DOMAIN manifest \cup {m} /\ With(manifest, m, r)[m] = r
          /\ \A n \in DOMAIN manifest \ {m} : With(manifest, m, r)[n] = manifest[n]
      BY <1>1, <2>3, <3>1, WithIs
    <3>3. manifest' = With(manifest, m, r)
      BY <2>1, <3>1, Zenon
    <3> QED BY <3>1, <3>2, <3>3
  <2> QED BY <1>1, <2>1, <2>2, <2>3, <2>4 DEF FaultInv
<1>3. ASSUME NEW m, DeletesStale(m)
      PROVE  FaultInv'
  <2>1. manifest' = Without(manifest, {m}) /\ op' = op
    BY <1>3 DEF DeletesStale
  <2>2. /\ DOMAIN Without(manifest, {m}) = DOMAIN manifest \ {m}
        /\ \A n \in DOMAIN manifest \ {m} : Without(manifest, {m})[n] = manifest[n]
    BY <1>1, WithoutIs
  <2>3. \A n \in DOMAIN manifest' : n \in DOMAIN manifest /\ manifest'[n] = manifest[n]
    BY <2>1, <2>2
  <2> QED BY <1>1, <2>1, <2>3 DEF FaultInv
<1>4. CASE /\ op' = [op EXCEPT !.step = IF op.setup = "none" THEN "save" ELSE "applied",
                               !.old = noRecords]
           /\ UNCHANGED manifest
  <2>1. PICK s : s = IF op.setup = "none" THEN "save" ELSE "applied"
    OBVIOUS
  <2>2. op' = [op EXCEPT !.step = s, !.old = noRecords]
    BY <1>4, <2>1, Zenon
  <2>3. op'.step = s /\ op'.torn = op.torn
    BY <1>1, <2>2, ZenonT(60) DEF OpRecords
  <2> QED BY <1>1, <1>4, <2>1, <2>3, NoneIsThere
<1> QED BY <1>2, <1>3, <1>4 DEF write_models

LEMMA FaultStep == CacheInv /\ FaultInv /\ [CacheStep]_cacheVars => FaultInv'
<1> SUFFICES ASSUME CacheInv, FaultInv, [CacheStep]_cacheVars PROVE FaultInv'
  OBVIOUS
<1>1. CASE UNCHANGED cacheVars
  BY <1>1 DEF FaultInv, cacheVars
<1>2. CASE QuietStep
  BY <1>2, QuietIs, NoneIsThere
<1>3. CASE Killed \/ SourceDeleted
  BY <1>3 DEF FaultInv, Killed, SourceDeleted
<1>4. CASE write_models
  BY <1>4, WriteFaults
<1>5. CASE add_model \/ use_model \/ import_model \/ remove_model \/ prune_models
  BY <1>5, EditFaults
<1> QED BY <1>1, <1>2, <1>3, <1>4, <1>5 DEF CacheStep, QuietStep

LEMMA FaultInitially == CacheInit => FaultInv
<1> SUFFICES ASSUME CacheInit PROVE FaultInv
  OBVIOUS
<1>1. PICK had \in Official \cup {none} :
         manifest = [m \in {had} \ {none} |-> [blank EXCEPT !.active = TRUE]]
  BY DEF CacheInit
<1>2. \A m \in DOMAIN manifest : ~manifest[m].source
  BY <1>1, BlankIs
<1>3. op = resting /\ faults = 0
  BY DEF CacheInit
<1> QED BY <1>2, <1>3, RestingIs DEF FaultInv

(* Without a fault the file of the configured model is removed only by remove
   --force, although remove_model looks at the manifests and not at the
   configuration. *)
THEOREM ActiveIsKept == CacheSpec => ActiveNotDeleted
<1>1. CacheInv /\ FaultInv /\ [CacheStep]_cacheVars =>
        [\A m \in Models :
          "managed" \in files[m] \ files'[m] /\ active = m /\ faults = 0
             => op.kind = "remove" /\ op.flag]_cacheVars
  <2> SUFFICES ASSUME CacheInv, FaultInv, CacheStep, NEW m \in Models,
                      "managed" \in files[m], "managed" \notin files'[m], active = m, faults = 0
               PROVE  op.kind = "remove" /\ op.flag
    OBVIOUS
  <2>1. files \in [Models -> SUBSET {"managed", "imported", "damaged"}]
    BY DEF CacheInv, CacheTypes
  <2>2. remove_model
    <3>1. files' # files
      OBVIOUS
    <3>2. ~Renames /\ ~SourceDeleted /\ ~import_model
      BY <2>1 DEF Renames, SourceDeleted, import_model
    <3>3. /\ ~Begins /\ ~SetsUp /\ ~ensure_catalog_model_fits /\ ~Prefetches /\ ~Downloads /\ ~Verifies
          /\ ~add_model /\ ~use_model /\ ~prune_models /\ ~write_models /\ ~apply_model_choice
          /\ ~Saves /\ ~Killed
      BY <3>1 DEF Begins, SetsUp, ensure_catalog_model_fits, Prefetches, Downloads, Verifies, add_model,
         use_model, prune_models, write_models, apply_model_choice, Saves, Killed
    <3> QED BY <3>2, <3>3 DEF CacheStep
  <2>3. /\ op.step = "records" /\ op.kind = "remove" /\ op.name = m
        /\ op.name \in DOMAIN list_models /\ (list_models[op.name].active => op.flag)
    BY <2>1, <2>2 DEF remove_model
  <2>4. ~op.torn /\ ~Unsaved /\ active # none
    BY <2>3, ZeroIsNoModel DEF FaultInv, Unsaved
  <2>5. Chosen(manifest, active)
    BY <2>4 DEF CacheInv, SaveInv
  <2>6. manifest[m].active
    BY <2>4, <2>5 DEF Chosen
  <2>7. list_models[m] = manifest[m]
    BY <2>3, ListedIs DEF CacheInv, CacheTypes
  <2> QED BY <2>3, <2>6, <2>7
<1>2. CacheSpec => []FaultInv
  BY CacheInvariant, FaultInitially, FaultStep, PTL DEF CacheSpec
<1> QED BY <1>1, <1>2, CacheInvariant, PTL DEF CacheSpec, ActiveNotDeleted

-----------------------------------------------------------------------------
(* The job: what the report promised still holds when the job meets it.     *)

JobFields == {"pc", "asked", "model", "kind", "live", "own", "route", "attempt", "gens",
              "started", "path", "deltas", "prose", "content", "calls", "by", "error",
              "checked", "offered"}

\* The backend, the cluster that is adopted, and the one there is.
ClusterInv ==
    /\ backend \in {"llama", "mlx", "vllm"}
    /\ cluster \in [up : BOOLEAN, serves : SUBSET Models, tools : BOOLEAN]
    /\ adopted \in [some : BOOLEAN, model : Models \cup {none}, models : SUBSET Models,
                    tools : BOOLEAN]
    /\ adopted.some => adopted.model \in Models

\* The node can serve its active model.
Able ==
    ~adopted.some =>
       /\ backend = "vllm" => active # none /\ Warm
       /\ backend = "llama" /\ ~Unreadable => none \notin resolve_model_path(active)

\* The node can serve the model m.
Offered(m) ==
    /\ m \in Models
    /\ adopted.some => m \in adopted.models \cup {adopted.model}
    /\ ~adopted.some /\ backend = "llama" /\ faults = 0 /\ ~Unreadable
          => none \notin resolve_model_path(m)

ReportInv ==
    /\ DOMAIN report = {"healthy", "fresh", "models", "tools"}
    /\ report.healthy /\ report.fresh => Able /\ \A m \in report.models : Offered(m)

\* What the job may rely on as long as nothing has changed since the report.
Promised(j) ==
    /\ Able
    /\ j.offered => Offered(j.asked)
    /\ j.pc = "claimed" \/ ~adopted.some
          => /\ j.asked # none => j.model = j.asked
             /\ j.asked = none /\ active # none => j.model = active

\* llama.cpp looks for a file first when it is the node's runtime, or after a
\* generation of MLX has failed.
Looks(j) ==
    j.pc = "path" => \/ j.gens > 0
                     \/ (j.own => backend = "llama") /\ (j.checked => ~adopted.some)

\* A job that is not refused.
Served(j) ==
    j.pc = "failed" /\ j.checked /\ j.own /\ ~Unreadable =>
       /\ ~adopted.some /\ active # none /\ j.asked \in {none, active}
             => j.error \in {"runtime", "schema"}
       /\ j.offered /\ j.kind # "native" /\ faults = 0 => j.error # "refused"

JobInv ==
    /\ DOMAIN job = JobFields /\ job.gens \in Nat
    /\ job.pc # "none" /\ job.checked => Promised(job)
    /\ Looks(job) /\ Served(job)

ServeInv == ClusterInv /\ ReportInv /\ JobInv

-----------------------------------------------------------------------------
(* Resolving a model.                                                      *)

\* The manifests that are asked first, and the files they and the others name.
Own(n)  == {m \in DOMAIN manifest : IF n # none THEN m = n ELSE manifest[m].active}
Hits(n) == {PathIn(m) : m \in Own(n)} \ {none}
Fall(n) == {PathIn(m) : m \in {k \in DOMAIN manifest \ Own(n) : manifest[k].active}} \ {none}

(* With readable manifests the pass over them has one kind of answer. *)
LEMMA PassIs ==
    ASSUME NEW n, ~Unreadable
    PROVE  imported_model_path_from_cache(n) =
              IF Hits(n) # {} THEN Hits(n) ELSE IF Fall(n) # {} THEN Fall(n) ELSE {none}
<1>1. {m \in DOMAIN manifest : manifest[m].readable} = DOMAIN manifest
  BY DEF Unreadable
<1>2. imported_model_path_from_cache(n) =
         LET ok   == DOMAIN manifest
             own  == {m \in ok : IF n # none THEN m = n ELSE manifest[m].active}
             hits == {PathIn(m) : m \in own} \ {none}
             fall == {PathIn(m) : m \in {k \in ok \ own : manifest[k].active}} \ {none}
         IN  (IF hits # {} THEN hits ELSE IF fall # {} THEN fall ELSE {none})
                 \cup (IF Unreadable THEN {none} ELSE {})
  BY <1>1 DEF imported_model_path_from_cache
<1> QED BY <1>2 DEF Own, Hits, Fall

LEMMA ActivesAre ==
    ASSUME ~Unreadable
    PROVE  active_model_name_from_cache = {m \in DOMAIN manifest : manifest[m].active}
  BY DEF active_model_name_from_cache, Unreadable

(* There is either a file or none, whatever the order in which they are read. *)
LEMMA FoundOrNot ==
    ASSUME NEW n, ~Unreadable, none \in resolve_model_path(n), CacheInv
    PROVE  resolve_model_path(n) = {none}
<1>1. PICK found, dir : /\ found = imported_model_path_from_cache(n)
                        /\ dir = {m \in Searched(n) : "managed" \in files[m]}
  OBVIOUS
<1>2. resolve_model_path(n) =
         (found \ {none}) \cup (IF none \notin found THEN {} ELSE IF dir = {} THEN {none} ELSE dir)
  BY <1>1, Zenon DEF resolve_model_path
<1>3. none \in found => found = {none}
  <2>1. none \notin Hits(n) /\ none \notin Fall(n)
    BY DEF Hits, Fall
  <2> QED BY <1>1, <2>1, PassIs
<1>4. none \notin dir
  <2>1. DOMAIN manifest \subseteq Models /\ none \notin Models
    BY CacheIs, ZeroIsNoModel DEF CacheInv, CacheTypes
  <2>2. active_model_name_from_cache \subseteq Models
    BY <2>1 DEF active_model_name_from_cache
  <2>3. none \notin Searched(n)
    BY <2>1, <2>2 DEF Searched
  <2> QED BY <1>1, <2>3
<1> QED BY <1>2, <1>3, <1>4

(* A manifest that names a file that is there. *)
LEMMA InstalledIsFound ==
    ASSUME ~Unreadable, CacheInv, NEW m \in DOMAIN manifest, manifest[m].source,
           "imported" \in files[m]
    PROVE  none \notin resolve_model_path(m)
<1>1. m # none
  BY CacheIs, ZeroIsNoModel DEF CacheInv, CacheTypes
<1>2. m \in Own(m) /\ PathIn(m) = m
  BY <1>1 DEF Own, PathIn
<1>3. m \in Hits(m) /\ none \notin Hits(m)
  BY <1>1, <1>2 DEF Hits
<1>4. none \notin imported_model_path_from_cache(m)
  BY <1>3, PassIs
<1> QED BY <1>4 DEF resolve_model_path

(* Asking for the active model is asking for its name. *)
LEMMA ActiveByName ==
    ASSUME ~Unreadable, CacheInv, NEW x \in DOMAIN manifest, manifest[x].active
    PROVE  resolve_model_path(x) = resolve_model_path(none)
<1>1. x # none
  BY CacheIs, ZeroIsNoModel DEF CacheInv, CacheTypes
<1>2. \A m \in DOMAIN manifest : manifest[m].active => m = x
  BY DEF CacheInv, MarkInv, OneActive
<1>3. Own(x) = {x} /\ Own(none) = {x}
  BY <1>1, <1>2 DEF Own
<1>4. Hits(x) = Hits(none)
  BY <1>3 DEF Hits
<1>5. Fall(x) = {} /\ Fall(none) = {}
  BY <1>2, <1>3 DEF Fall
<1>6. imported_model_path_from_cache(x) = imported_model_path_from_cache(none)
  BY <1>4, <1>5, PassIs
<1>7. Searched(x) = {x}
  BY <1>1 DEF Searched
<1>8. active_model_name_from_cache = {x}
  BY <1>2, ActivesAre
<1>9. Searched(none) = {x}
  BY <1>8 DEF Searched
<1> QED BY <1>6, <1>7, <1>9 DEF resolve_model_path

-----------------------------------------------------------------------------
(* The cache under the job.                                                 *)

(* Whatever the worker does, the cache takes the steps of its commands. *)
LEMMA CacheGoesOn == [Next]_vars => [CacheStep]_cacheVars
<1> SUFFICES ASSUME [Next]_vars PROVE [CacheStep]_cacheVars
  OBVIOUS
<1>1. CASE UNCHANGED vars
  BY <1>1 DEF vars
<1>2. CASE Surroundings
  BY <1>2 DEF Surroundings, ServerStarts, ServerDies, ClusterChanges, run_cluster_use,
     run_cluster_forget, ToolUntrusted, ToolProbeStarts, ToolProbeEnds
<1>3. CASE probe_worker_health \/ Claims
  BY <1>3 DEF probe_worker_health, Claims
<1>4. CASE Worker
  BY <1>4 DEF Worker, execute_request_with_cluster, RemoteAttempt, run_native_tool_attempts,
     NativeAttempt, MlxWarm, run_mlx_command, LlamaResolves, run_llama_server_completion,
     run_llama_command, Reported
<1> QED BY <1>1, <1>2, <1>3, <1>4 DEF Next

LEMMA CacheUnderJob == Spec => [](CacheInv /\ FaultInv)
<1>1. Init => CacheInv /\ FaultInv
  BY CacheInitially, FaultInitially DEF Init
<1>2. CacheInv /\ FaultInv /\ [Next]_vars => CacheInv' /\ FaultInv'
  BY CacheGoesOn, CacheStepKeeps, FaultStep
<1> QED BY <1>1, <1>2, PTL DEF Spec

-----------------------------------------------------------------------------
(* What a step of a job leaves as it is.                                    *)

\* j is the same request as the job.
Same(j) ==
    /\ DOMAIN j = JobFields
    /\ j.asked = job.asked /\ j.kind = job.kind /\ j.own = job.own
    /\ j.checked = job.checked /\ j.offered = job.offered

\* What a generation leaves: it is counted, and only a failed one ends the job.
Tried(j) ==
    /\ Same(j) /\ j.model = job.model /\ j.gens \in Nat
    /\ j.pc \notin {"none", "claimed"}
    /\ j.pc = "path" => j.gens > 0
    /\ j.pc = "failed" => j.error \in {"runtime", "schema"}

(* What can be served depends on the cache and the node. *)
LEMMA Frame ==
    ASSUME UNCHANGED <<cacheVars, nodeVars>>
    PROVE  /\ UNCHANGED <<Able, Unreadable, backend, cluster, adopted, report, active, faults>>
           /\ \A m : Offered(m)' <=> Offered(m)
           /\ ClusterInv' <=> ClusterInv
<1>1. UNCHANGED <<Able, Unreadable, backend, cluster, adopted, report, active, faults>>
  BY DEF Able, Warm, resolve_model_path, Searched, imported_model_path_from_cache,
     active_model_name_from_cache, PathIn, Unreadable, cacheVars, nodeVars
<1>2. \A m : Offered(m)' <=> Offered(m)
  BY DEF Offered, Warm, resolve_model_path, Searched, imported_model_path_from_cache,
     active_model_name_from_cache, PathIn, Unreadable, cacheVars, nodeVars
<1> QED BY <1>1, <1>2 DEF ClusterInv

LEMMA TriedKeeps ==
    ASSUME ServeInv, UNCHANGED <<cacheVars, nodeVars>>, job.pc # "none", Tried(job')
    PROVE  ServeInv'
<1>1. /\ UNCHANGED <<Able, Unreadable, adopted, report, active, faults>>
      /\ \A m : Offered(m)' <=> Offered(m)
      /\ ClusterInv'
  BY Frame DEF ServeInv
<1>2. ReportInv'
  BY <1>1 DEF ServeInv, ReportInv
<1>3. /\ DOMAIN job' = JobFields /\ job'.gens \in Nat
      /\ job'.asked = job.asked /\ job'.model = job.model
      /\ job'.checked = job.checked /\ job'.offered = job.offered
      /\ job'.pc # "none" /\ job'.pc # "claimed" /\ (job'.pc = "path" => job'.gens > 0)
      /\ job'.pc = "failed" => job'.error = "runtime" \/ job'.error = "schema"
  BY DEF Tried, Same
<1>4. ASSUME job'.checked PROVE Promised(job)'
  <2>1. Promised(job)
    BY <1>3, <1>4 DEF ServeInv, JobInv
  <2> QED BY <1>1, <1>3, <2>1 DEF Promised
<1>5. Looks(job)'
  BY <1>3 DEF Looks
<1>6. Served(job)'
  BY <1>3 DEF Served
<1> QED BY <1>1, <1>2, <1>3, <1>4, <1>5, <1>6 DEF ServeInv, JobInv

(* What has changed promises nothing any more. *)
LEMMA NothingPromised == ServeInv /\ Stale /\ ClusterInv' /\ backend' = backend => ServeInv'
<1> SUFFICES ASSUME ServeInv, Stale, ClusterInv', backend' = backend PROVE ServeInv'
  OBVIOUS
<1>1. DOMAIN report' = DOMAIN report /\ ~report'.fresh
  BY ZenonT(60) DEF ServeInv, ReportInv, Stale
<1>2. ReportInv'
  BY <1>1 DEF ServeInv, ReportInv
<1>3. /\ DOMAIN job' = JobFields /\ job'.gens = job.gens /\ job'.pc = job.pc
      /\ job'.own = job.own /\ ~job'.checked
  BY ZenonT(60) DEF ServeInv, JobInv, Stale, JobFields
<1>4. JobInv'
  BY <1>3 DEF ServeInv, JobInv, Looks, Served
<1> QED BY <1>2, <1>4 DEF ServeInv

LEMMA JudgedIs ==
    ASSUME DOMAIN job = JobFields, job.gens \in Nat, NEW out, NEW by,
           NEW again \in {"cluster", "vllm", "mlx", "llama"}, NEW j \in Judged(job, out, by, again)
    PROVE  Tried(j)
<1>1. PICK k : k = [job EXCEPT !.gens = @ + 1, !.deltas = @ \o out.sent, !.started = TRUE]
  OBVIOUS
<1>2. /\ DOMAIN k = JobFields /\ k.gens = job.gens + 1 /\ k.model = job.model
      /\ k.asked = job.asked /\ k.kind = job.kind /\ k.own = job.own
      /\ k.checked = job.checked /\ k.offered = job.offered
  BY <1>1, ZenonT(60) DEF JobFields
<1>3. k.gens \in Nat
  BY <1>2
<1>4. \/ j = [k EXCEPT !.pc = "completed", !.content = out.text, !.by = by]
      \/ j = [k EXCEPT !.pc = again, !.attempt = k.attempt + 1]
      \/ j = Ends(k, "schema")
  <2>1. PICK a, b, c :
         /\ a = [k EXCEPT !.pc = "completed", !.content = out.text, !.by = by]
         /\ b = [k EXCEPT !.pc = again, !.attempt = k.attempt + 1]
         /\ c = Ends(k, "schema")
    OBVIOUS
  <2>2. Judged(job, out, by, again) =
           IF job.kind # "speakai" THEN {a}
           ELSE {a, IF job.attempt + 1 < Attempts THEN b ELSE c}
    BY <1>1, <2>1, Zenon DEF Judged
  <2>3. j = a \/ j = b \/ j = c
    BY <2>2
  <2> QED BY <2>1, <2>3, Zenon
<1>5. /\ DOMAIN j = JobFields /\ j.gens = k.gens /\ j.model = k.model
      /\ j.asked = k.asked /\ j.kind = k.kind /\ j.own = k.own
      /\ j.checked = k.checked /\ j.offered = k.offered
      /\ \/ j.pc = "completed"
         \/ j.pc = again
         \/ j.pc = "failed" /\ j.error = "schema"
  <2>1. CASE j = [k EXCEPT !.pc = "completed", !.content = out.text, !.by = by]
    BY <1>2, <2>1, ZenonT(60) DEF JobFields
  <2>2. CASE j = [k EXCEPT !.pc = again, !.attempt = k.attempt + 1]
    BY <1>2, <2>2, ZenonT(60) DEF JobFields
  <2>3. CASE j = Ends(k, "schema")
    BY <1>2, <2>3, ZenonT(60) DEF JobFields, Ends
  <2> QED BY <1>4, <2>1, <2>2, <2>3
<1> QED BY <1>2, <1>3, <1>5 DEF Tried, Same

LEMMA OneMore == \A n \in Nat : n + 1 \in Nat /\ n + 1 > 0
  OBVIOUS

LEMMA FailedIs ==
    ASSUME DOMAIN job = JobFields, job.gens \in Nat, NEW out,
           NEW next \in {"failed", "mlx command", "path", "llama command"}
    PROVE  Tried(Failed(job, out, next))
<1>1. PICK k : k = [job EXCEPT !.gens = @ + 1, !.deltas = @ \o out.sent]
  OBVIOUS
<1>2. /\ DOMAIN k = JobFields /\ k.gens = job.gens + 1 /\ k.model = job.model
      /\ k.asked = job.asked /\ k.kind = job.kind /\ k.own = job.own
      /\ k.checked = job.checked /\ k.offered = job.offered
  BY <1>1, ZenonT(60) DEF JobFields
<1>3. PICK j : j = Failed(job, out, next)
  OBVIOUS
<1>4. j = IF next = "failed" THEN Ends(k, "runtime") ELSE [k EXCEPT !.pc = next]
  BY <1>1, <1>3, Zenon DEF Failed
<1>5. /\ DOMAIN j = JobFields /\ j.gens = k.gens /\ j.model = k.model
      /\ j.asked = k.asked /\ j.kind = k.kind /\ j.own = k.own
      /\ j.checked = k.checked /\ j.offered = k.offered
      /\ \/ next # "failed" /\ j.pc = next
         \/ j.pc = "failed" /\ j.error = "runtime"
  <2>1. CASE next = "failed"
    <3>1. j = Ends(k, "runtime")
      BY <1>4, <2>1
    <3> QED BY <1>2, <3>1, ZenonT(60) DEF JobFields, Ends
  <2>2. CASE next # "failed"
    <3>1. j = [k EXCEPT !.pc = next]
      BY <1>4, <2>2
    <3> QED BY <1>2, <2>2, <3>1, ZenonT(60) DEF JobFields
  <2> QED BY <2>1, <2>2
<1>6. j.gens \in Nat /\ j.gens > 0
  <2> QED BY <1>2, <1>5, OneMore, Zenon
<1>7. Tried(j)
  BY <1>2, <1>5, <1>6 DEF Tried, Same
<1> QED BY <1>3, <1>7

(* A step of the job that only changes where it is. *)
LEMMA MovesOn ==
    ASSUME DOMAIN job = JobFields, job.gens \in Nat,
           NEW pc \in {"mlx command", "llama command"}
    PROVE  Tried([job EXCEPT !.pc = pc])
<1>1. PICK j : j = [job EXCEPT !.pc = pc]
  OBVIOUS
<1>2. /\ DOMAIN j = JobFields /\ j.gens = job.gens /\ j.model = job.model
      /\ j.asked = job.asked /\ j.kind = job.kind /\ j.own = job.own
      /\ j.checked = job.checked /\ j.offered = job.offered /\ j.pc = pc
  BY <1>1, ZenonT(60) DEF JobFields
<1>3. Tried(j)
  BY <1>2 DEF Tried, Same
<1> QED BY <1>1, <1>3

LEMMA JobIs == ServeInv => DOMAIN job = JobFields /\ job.gens \in Nat
  BY DEF ServeInv, JobInv

-----------------------------------------------------------------------------
(* The attempts.                                                            *)

LEMMA RemoteKeeps == ServeInv /\ RemoteAttempt => ServeInv'
<1> SUFFICES ASSUME ServeInv, RemoteAttempt PROVE ServeInv'
  OBVIOUS
<1>1. job.pc \in {"cluster", "vllm"} /\ UNCHANGED <<cacheVars, nodeVars>>
  BY DEF RemoteAttempt
<1>2. \E out : \/ job' \in Judged(job, out, job.model, job.pc)
               \/ job' = Failed(job, out, "failed")
  BY Zenon DEF RemoteAttempt
<1>3. Tried(job')
  BY <1>1, <1>2, JobIs, JudgedIs, FailedIs
<1> QED BY <1>1, <1>3, TriedKeeps

LEMMA WarmMlxKeeps == ServeInv /\ MlxWarm => ServeInv'
<1> SUFFICES ASSUME ServeInv, MlxWarm PROVE ServeInv'
  OBVIOUS
<1>1. job.pc = "mlx" /\ UNCHANGED <<cacheVars, nodeVars>>
  BY DEF MlxWarm
<1>2. \/ \E out : \/ job' \in Judged(job, out, job.model, "mlx")
                  \/ job' = Failed(job, out, "mlx command")
      \/ job' = [job EXCEPT !.pc = "mlx command"]
  BY Zenon DEF MlxWarm
<1>3. Tried(job')
  BY <1>2, JobIs, JudgedIs, FailedIs, MovesOn
<1> QED BY <1>1, <1>3, TriedKeeps

LEMMA MlxCommandKeeps == ServeInv /\ run_mlx_command => ServeInv'
<1> SUFFICES ASSUME ServeInv, run_mlx_command PROVE ServeInv'
  OBVIOUS
<1>1. job.pc = "mlx command" /\ UNCHANGED <<cacheVars, nodeVars>>
  BY DEF run_mlx_command
<1>2. PICK next \in {"failed", "path"} : next = IF job.started THEN "failed" ELSE "path"
  OBVIOUS
<1>3. \/ \E out : job' \in Judged(job, out, job.model, "mlx")
      \/ job' = Failed(job, Lost, next)
  BY <1>2, Zenon DEF run_mlx_command
<1>4. Tried(job')
  BY <1>3, JobIs, JudgedIs, FailedIs
<1> QED BY <1>1, <1>4, TriedKeeps

LEMMA LlamaServerKeeps == ServeInv /\ run_llama_server_completion => ServeInv'
<1> SUFFICES ASSUME ServeInv, run_llama_server_completion PROVE ServeInv'
  OBVIOUS
<1>1. job.pc = "llama" /\ UNCHANGED <<cacheVars, nodeVars>>
  BY DEF run_llama_server_completion
<1>2. \/ \E out : \/ job' \in Judged(job, out, server.model, "llama")
                  \/ job' = Failed(job, out, "llama command")
      \/ job' = [job EXCEPT !.pc = "llama command"]
  BY Zenon DEF run_llama_server_completion
<1>3. Tried(job')
  BY <1>2, JobIs, JudgedIs, FailedIs, MovesOn
<1> QED BY <1>1, <1>3, TriedKeeps

LEMMA LlamaCommandKeeps == ServeInv /\ run_llama_command => ServeInv'
<1> SUFFICES ASSUME ServeInv, run_llama_command PROVE ServeInv'
  OBVIOUS
<1>1. job.pc = "llama command" /\ UNCHANGED <<cacheVars, nodeVars>>
  BY DEF run_llama_command
<1>2. \/ \E out : job' \in Judged(job, out, job.path, "llama")
      \/ job' = Failed(job, Lost, "failed")
  BY Zenon DEF run_llama_command
<1>3. Tried(job')
  BY <1>2, JobIs, JudgedIs, FailedIs
<1> QED BY <1>1, <1>3, TriedKeeps

(* A turn of native tools ends, or is tried once more. *)
LEMMA NativeIs ==
    ASSUME DOMAIN job = JobFields, job.gens \in Nat, NEW retry,
           NEW after \in {"native again", "failed"}, NativeAttempt(retry, after)
    PROVE  Tried(job') /\ UNCHANGED <<cacheVars, nodeVars>>
<1>1. PICK g \in Nat : g = job.gens + 1
  BY OneMore, Zenon
<1>2. PICK prose \in {Chars(job.gens + 1, b) : b \in {<<>>, <<"a">>, <<"a", "a">>}}, calls \in Calls,
           ended \in BOOLEAN, length \in BOOLEAN :
        LET sent    == IF job.live THEN StreamedProse(retry, prose) ELSE <<>>
            verdict == IF length /\ calls # <<>> THEN "rejected"
                       ELSE IF retry /\ calls = <<>> THEN "invalid"
                       ELSE validate_native_tool_message(calls)
            frags   == IF job.live /\ ended THEN Releases(verdict, calls, job.gens + 1) ELSE <<>>
            seen    == [job EXCEPT !.gens = job.gens + 1, !.deltas = @ \o sent \o frags,
                                   !.prose = @ \o sent]
        IN  job' = IF ~(cluster.up /\ job.model \in cluster.serves)
                   THEN Ends(job, "runtime")
                   ELSE IF ~ended THEN Ends(seen, "runtime")
                   ELSE IF verdict = "valid"
                   THEN [seen EXCEPT !.pc = "completed", !.by = job.model,
                           !.content = IF job.live THEN seen.prose ELSE prose,
                           !.calls = ToolFragments(job.gens + 1, calls)]
                   ELSE IF verdict = "rejected" /\ after # "failed"
                   THEN [seen EXCEPT !.pc = after]
                   ELSE Ends(seen, "runtime")
  BY Zenon DEF NativeAttempt
<1> DEFINE sent    == IF job.live THEN StreamedProse(retry, prose) ELSE <<>>
           verdict == IF length /\ calls # <<>> THEN "rejected"
                      ELSE IF retry /\ calls = <<>> THEN "invalid"
                      ELSE validate_native_tool_message(calls)
           frags   == IF job.live /\ ended THEN Releases(verdict, calls, job.gens + 1) ELSE <<>>
           seen    == [job EXCEPT !.gens = job.gens + 1, !.deltas = @ \o sent \o frags,
                                  !.prose = @ \o sent]
           content == IF job.live THEN seen.prose ELSE prose
<1>8. job' = IF ~(cluster.up /\ job.model \in cluster.serves)
             THEN Ends(job, "runtime")
             ELSE IF ~ended THEN Ends(seen, "runtime")
             ELSE IF verdict = "valid"
             THEN [seen EXCEPT !.pc = "completed", !.by = job.model, !.content = content,
                               !.calls = ToolFragments(job.gens + 1, calls)]
             ELSE IF verdict = "rejected" /\ after # "failed"
             THEN [seen EXCEPT !.pc = after]
             ELSE Ends(seen, "runtime")
  BY <1>2, Zenon
<1> HIDE DEF sent, verdict, frags
<1>9. /\ DOMAIN seen = JobFields /\ seen.gens = g /\ seen.model = job.model
      /\ seen.asked = job.asked /\ seen.kind = job.kind /\ seen.own = job.own
      /\ seen.checked = job.checked /\ seen.offered = job.offered
  BY <1>1, ZenonT(60) DEF JobFields
<1> HIDE DEF seen, content
<1>10. \A k : /\ DOMAIN k = JobFields /\ k.gens \in Nat /\ k.model = job.model
              /\ k.asked = job.asked /\ k.kind = job.kind /\ k.own = job.own
              /\ k.checked = job.checked /\ k.offered = job.offered
              => Tried(Ends(k, "runtime"))
  <2> SUFFICES ASSUME NEW k, DOMAIN k = JobFields, k.gens \in Nat, k.model = job.model,
                      k.asked = job.asked, k.kind = job.kind, k.own = job.own,
                      k.checked = job.checked, k.offered = job.offered
               PROVE  Tried(Ends(k, "runtime"))
    OBVIOUS
  <2>1. PICK j : j = Ends(k, "runtime")
    OBVIOUS
  <2>2. /\ DOMAIN j = JobFields /\ j.gens = k.gens /\ j.model = k.model
        /\ j.asked = k.asked /\ j.kind = k.kind /\ j.own = k.own
        /\ j.checked = k.checked /\ j.offered = k.offered
        /\ j.pc = "failed" /\ j.error = "runtime"
    BY <2>1, ZenonT(60) DEF JobFields, Ends
  <2>3. Tried(j)
    BY <2>2 DEF Tried, Same
  <2> QED BY <2>1, <2>3
<1>11. ASSUME job' = Ends(job, "runtime") \/ job' = Ends(seen, "runtime")
       PROVE  Tried(job')
  BY <1>9, <1>10, <1>11
<1>12. ASSUME job' = [seen EXCEPT !.pc = "completed", !.by = job.model, !.content = content,
                                !.calls = ToolFragments(job.gens + 1, calls)]
       PROVE  Tried(job')
  <2>1. /\ DOMAIN job' = JobFields /\ job'.gens = seen.gens /\ job'.model = seen.model
        /\ job'.asked = seen.asked /\ job'.kind = seen.kind /\ job'.own = seen.own
        /\ job'.checked = seen.checked /\ job'.offered = seen.offered
        /\ job'.pc = "completed"
    BY <1>9, <1>12, ZenonT(60) DEF JobFields
  <2> QED BY <1>9, <2>1 DEF Tried, Same
<1>13. ASSUME job' = [seen EXCEPT !.pc = after] /\ after # "failed"
       PROVE  Tried(job')
  <2>1. /\ DOMAIN job' = JobFields /\ job'.gens = seen.gens /\ job'.model = seen.model
        /\ job'.asked = seen.asked /\ job'.kind = seen.kind /\ job'.own = seen.own
        /\ job'.checked = seen.checked /\ job'.offered = seen.offered
        /\ job'.pc = after
    BY <1>9, <1>13, ZenonT(60) DEF JobFields
  <2> QED BY <1>9, <1>13, <2>1 DEF Tried, Same
<1>14. Tried(job')
  BY <1>8, <1>11, <1>12, <1>13, Zenon
<1> QED BY <1>14 DEF NativeAttempt

LEMMA NativeKeeps == ServeInv /\ run_native_tool_attempts => ServeInv'
<1> SUFFICES ASSUME ServeInv, run_native_tool_attempts PROVE ServeInv'
  OBVIOUS
<1>1. /\ job.pc \in {"native", "native again"}
      /\ NativeAttempt(FALSE, "native again") \/ NativeAttempt(TRUE, "failed")
  BY Zenon DEF run_native_tool_attempts
<1>2. Tried(job') /\ UNCHANGED <<cacheVars, nodeVars>>
  BY <1>1, JobIs, NativeIs
<1> QED BY <1>1, <1>2, TriedKeeps

-----------------------------------------------------------------------------
(* The choice of a runtime.                                                 *)

LEMMA JobKeeps ==
    ASSUME ServeInv, UNCHANGED <<cacheVars, nodeVars>>,
           DOMAIN job' = JobFields, job'.gens \in Nat,
           job'.pc # "none" /\ job'.checked => Promised(job)', Looks(job)', Served(job)'
    PROVE  ServeInv'
<1>1. UNCHANGED <<Able, report>> /\ (\A m : Offered(m)' <=> Offered(m)) /\ ClusterInv'
  BY Frame DEF ServeInv
<1>2. ReportInv'
  BY <1>1 DEF ServeInv, ReportInv
<1> QED BY <1>1, <1>2 DEF ServeInv, JobInv

(* Without the report's promise, or with it kept, the job may go on. *)
LEMMA PromiseStays ==
    ASSUME ServeInv, UNCHANGED <<cacheVars, nodeVars>>, Same(job'), job.pc # "none",
           job'.pc # "claimed",
           ~adopted.some => \/ job'.model = job.model
                            \/ job.asked = none /\ active = none
           \* a job for no model, on a node without one
    PROVE  job'.checked => Promised(job)'
<1>1. UNCHANGED <<Able, adopted, active>> /\ \A m : Offered(m)' <=> Offered(m)
  BY Frame
<1>2. SUFFICES ASSUME job'.checked PROVE Promised(job)'
  OBVIOUS
<1>3. Promised(job)
  BY <1>2 DEF ServeInv, JobInv, Same
<1> QED BY <1>1, <1>3 DEF Promised, Same

LEMMA ClusterRequestIs ==
    ASSUME DOMAIN job = JobFields, NEW j, j = ClusterRequest(job)
    PROVE  /\ Same(j) /\ j.gens = job.gens /\ j.pc \in {"failed", "native", "cluster"}
           /\ j.pc = "failed" =>
                 \/ j.error = "unhealthy"
                 \/ job.model # none /\ job.model \notin adopted.models \cup {adopted.model}
                 \/ job.kind = "native"
<1>1. PICK model : model = IF job.model # none THEN job.model ELSE adopted.model
  OBVIOUS
<1>2. PICK pc : pc = IF job.kind = "native" THEN "native" ELSE "cluster"
  OBVIOUS
<1>3. j = IF ~cluster.up \/ adopted.model = none THEN Ends(job, "unhealthy")
          ELSE IF job.model # none /\ job.model # adopted.model /\ job.model \notin adopted.models
          THEN Ends(job, "refused")
          ELSE IF job.kind = "native" /\ ~adopted.tools THEN Ends(job, "refused")
          ELSE [job EXCEPT !.pc = pc, !.route = "cluster", !.model = model]
  BY <1>1, <1>2, Zenon DEF ClusterRequest
<1>4. ASSUME NEW why, j = Ends(job, why)
      PROVE  Same(j) /\ j.gens = job.gens /\ j.pc = "failed" /\ j.error = why
  <2>1. /\ DOMAIN j = JobFields /\ j.gens = job.gens
        /\ j.asked = job.asked /\ j.kind = job.kind /\ j.own = job.own
        /\ j.checked = job.checked /\ j.offered = job.offered
        /\ j.pc = "failed" /\ j.error = why
    BY <1>4, ZenonT(60) DEF JobFields, Ends
  <2> QED BY <2>1 DEF Same
<1>5. ASSUME j = [job EXCEPT !.pc = pc, !.route = "cluster", !.model = model]
      PROVE  Same(j) /\ j.gens = job.gens /\ j.pc = pc
  <2>1. /\ DOMAIN j = JobFields /\ j.gens = job.gens
        /\ j.asked = job.asked /\ j.kind = job.kind /\ j.own = job.own
        /\ j.checked = job.checked /\ j.offered = job.offered /\ j.pc = pc
    BY <1>5, ZenonT(60) DEF JobFields
  <2> QED BY <2>1 DEF Same
<1>6. CASE ~cluster.up \/ adopted.model = none
  BY <1>3, <1>4, <1>6
<1>7. CASE /\ ~(~cluster.up \/ adopted.model = none)
           /\ job.model # none /\ job.model # adopted.model /\ job.model \notin adopted.models
  BY <1>3, <1>4, <1>7
<1>8. CASE /\ ~(~cluster.up \/ adopted.model = none)
           /\ ~(job.model # none /\ job.model # adopted.model /\ job.model \notin adopted.models)
  BY <1>2, <1>3, <1>4, <1>5, <1>8
<1> QED BY <1>6, <1>7, <1>8

LEMMA VllmRequestIs ==
    ASSUME DOMAIN job = JobFields, NEW j, j = run_vllm_request(job)
    PROVE  /\ Same(j) /\ j.gens = job.gens /\ j.model = job.model /\ j.pc \in {"failed", "vllm"}
           /\ j.pc = "failed" => ~Warm \/ backend # "vllm" \/ job.model = none
<1>1. /\ \/ \E why : j = Ends(job, why)
         \/ j = [job EXCEPT !.pc = "vllm", !.route = "vllm"]
      /\ Warm /\ backend = "vllm" /\ job.model # none
            => j = [job EXCEPT !.pc = "vllm", !.route = "vllm"]
  BY Zenon DEF run_vllm_request, Warm
<1>2. ASSUME NEW why, j = Ends(job, why)
      PROVE  Same(j) /\ j.gens = job.gens /\ j.model = job.model /\ j.pc = "failed"
  <2>1. /\ DOMAIN j = JobFields /\ j.gens = job.gens /\ j.model = job.model
        /\ j.asked = job.asked /\ j.kind = job.kind /\ j.own = job.own
        /\ j.checked = job.checked /\ j.offered = job.offered /\ j.pc = "failed"
    BY <1>2, ZenonT(60) DEF JobFields, Ends
  <2> QED BY <2>1 DEF Same
<1>3. ASSUME j = [job EXCEPT !.pc = "vllm", !.route = "vllm"]
      PROVE  Same(j) /\ j.gens = job.gens /\ j.model = job.model /\ j.pc = "vllm"
  <2>1. /\ DOMAIN j = JobFields /\ j.gens = job.gens /\ j.model = job.model
        /\ j.asked = job.asked /\ j.kind = job.kind /\ j.own = job.own
        /\ j.checked = job.checked /\ j.offered = job.offered /\ j.pc = "vllm"
    BY <1>3, ZenonT(60) DEF JobFields
  <2> QED BY <2>1 DEF Same
<1> QED BY <1>1, <1>2, <1>3

(* The job is not refused what the node was found to serve. *)
LEMMA ExecuteKeeps == ServeInv /\ execute_request_with_cluster => ServeInv'
<1> SUFFICES ASSUME ServeInv, execute_request_with_cluster PROVE ServeInv'
  OBVIOUS
<1>1. /\ job.pc = "claimed" /\ UNCHANGED <<cacheVars, nodeVars>>
      /\ DOMAIN job = JobFields /\ job.gens \in Nat
  BY JobIs DEF execute_request_with_cluster
<1>2. PICK route \in IF job.own THEN {backend} ELSE {"llama", "mlx", "vllm"},
           m \in preferred_speakai_model_name(job.model, job.kind = "speakai") :
        job' = CASE adopted.some -> ClusterRequest(job)
                 [] ~adopted.some /\ route = "vllm" -> run_vllm_request(job)
                 [] OTHER -> [job EXCEPT !.pc = IF route = "mlx" THEN "mlx" ELSE "path",
                                         !.route = route, !.model = m]
  BY DEF execute_request_with_cluster
<1>3. /\ UNCHANGED <<Able, Unreadable, backend, adopted, active, faults>>
      /\ \A x : Offered(x)' <=> Offered(x)
  BY <1>1, Frame
<1>4. job.checked => Promised(job)
  BY <1>1 DEF ServeInv, JobInv
<1>5. CASE adopted.some
  <2>1. job' = ClusterRequest(job)
    BY <1>2, <1>5
  <2>2. /\ Same(job') /\ job'.gens = job.gens /\ job'.pc \in {"failed", "native", "cluster"}
        /\ job'.pc = "failed" =>
              \/ job'.error = "unhealthy"
              \/ job.model # none /\ job.model \notin adopted.models \cup {adopted.model}
              \/ job.kind = "native"
    BY <1>1, <2>1, ClusterRequestIs
  <2>3. job'.checked => Promised(job)'
    BY <1>1, <1>5, <2>2, PromiseStays
  <2>4. Served(job)'
    <3> SUFFICES ASSUME job'.pc = "failed", job.checked, job.offered, job.kind # "native"
                 PROVE  job'.error = "unhealthy"
      BY <1>3, <1>5, <2>2 DEF Served, Same
    <3>1. Offered(job.asked) /\ (job.asked # none => job.model = job.asked)
      BY <1>1, <1>4 DEF Promised
    <3>2. job.asked \in adopted.models \cup {adopted.model} /\ job.asked # none
      BY <1>5, <3>1, ZeroIsNoModel DEF Offered
    <3> QED BY <2>2, <3>1, <3>2
  <2>5. Looks(job)'
    BY <2>2 DEF Looks
  <2> QED BY <1>1, <2>2, <2>3, <2>4, <2>5, JobKeeps DEF Same
<1>6. CASE ~adopted.some /\ route = "vllm"
  <2>1. job' = run_vllm_request(job)
    BY <1>2, <1>6
  <2>2. /\ Same(job') /\ job'.gens = job.gens /\ job'.model = job.model
        /\ job'.pc \in {"failed", "vllm"}
        /\ job'.pc = "failed" => ~Warm \/ backend # "vllm" \/ job.model = none
    BY <1>1, <2>1, VllmRequestIs
  <2>3. job'.checked => Promised(job)'
    BY <1>1, <2>2, PromiseStays
  <2>4. Served(job)'
    <3> SUFFICES ASSUME job'.pc = "failed", job.checked, job.own,
                        \/ active # none /\ job.asked \in {none, active}
                        \/ job.offered
                 PROVE  FALSE
      BY <1>3, <2>2 DEF Served, Same
    <3>1. backend = "vllm"
      BY <1>2, <1>6
    <3>2. active # none /\ Warm
      BY <1>4, <1>6, <3>1 DEF Promised, Able
    <3>3. job.offered => job.asked # none
      BY <1>4, ZeroIsNoModel DEF Promised, Offered
    <3>4. job.model # none
      BY <1>1, <1>4, <3>2, <3>3 DEF Promised
    <3> QED BY <2>2, <3>1, <3>2, <3>4
  <2>5. Looks(job)'
    BY <2>2 DEF Looks
  <2> QED BY <1>1, <2>2, <2>3, <2>4, <2>5, JobKeeps DEF Same
<1>7. CASE ~adopted.some /\ route # "vllm"
  <2>1. PICK pc : pc = IF route = "mlx" THEN "mlx" ELSE "path"
    OBVIOUS
  <2>2. job' = [job EXCEPT !.pc = pc, !.route = route, !.model = m]
    <3>1. job' = [job EXCEPT !.pc = IF route = "mlx" THEN "mlx" ELSE "path",
                             !.route = route, !.model = m]
      BY <1>2, <1>7, Zenon
    <3> QED BY <2>1, <3>1, Zenon
  <2>3. /\ DOMAIN job' = JobFields /\ job'.gens = job.gens /\ job'.model = m
        /\ job'.asked = job.asked /\ job'.kind = job.kind /\ job'.own = job.own
        /\ job'.checked = job.checked /\ job'.offered = job.offered /\ job'.pc = pc
    BY <1>1, <2>2, ZenonT(60) DEF JobFields
  <2>4. job.model # none => m = job.model
    BY <1>2 DEF preferred_speakai_model_name
  <2>5. Same(job') /\ job'.pc \in {"mlx", "path"}
    BY <2>1, <2>3 DEF Same
  <2>6. ASSUME job'.checked PROVE Promised(job)'
    <3>1. \/ job'.model = job.model
          \/ job.asked = none /\ active = none
      BY <1>1, <1>4, <2>3, <2>4, <2>6 DEF Promised
    <3> QED BY <1>1, <2>5, <2>6, <3>1, PromiseStays
  <2>7. Looks(job)'
    <3>1. job.own /\ pc = "path" => backend = "llama"
      BY <1>2, <1>7, <2>1 DEF ServeInv, ClusterInv
    <3> QED BY <1>3, <1>7, <2>3, <3>1 DEF Looks
  <2>8. Served(job)'
    BY <2>5 DEF Served
  <2> QED BY <1>1, <2>3, <2>6, <2>7, <2>8, JobKeeps
<1> QED BY <1>5, <1>6, <1>7

LEMMA ResolveKeeps == ServeInv /\ CacheInv /\ LlamaResolves => ServeInv'
<1> SUFFICES ASSUME ServeInv, CacheInv, LlamaResolves PROVE ServeInv'
  OBVIOUS
<1>1. /\ job.pc = "path" /\ UNCHANGED <<cacheVars, nodeVars>>
      /\ DOMAIN job = JobFields /\ job.gens \in Nat
  BY JobIs DEF LlamaResolves
<1>2. PICK f \in FileOf(job.model) :
        job' = IF f = none THEN Ends(job, IF job.gens > 0 THEN "runtime" ELSE "refused")
               ELSE [job EXCEPT !.pc = "llama", !.path = f, !.attempt = 0]
  BY DEF LlamaResolves
<1>3. /\ UNCHANGED <<Able, Unreadable, backend, adopted, active, faults>>
      /\ \A x : Offered(x)' <=> Offered(x)
  BY <1>1, Frame
<1>4. job.checked => Promised(job)
  BY <1>1 DEF ServeInv, JobInv
<1>5. CASE f # none
  <2>1. job' = [job EXCEPT !.pc = "llama", !.path = f, !.attempt = 0]
    BY <1>2, <1>5
  <2>2. /\ DOMAIN job' = JobFields /\ job'.gens = job.gens /\ job'.model = job.model
        /\ job'.asked = job.asked /\ job'.kind = job.kind /\ job'.own = job.own
        /\ job'.checked = job.checked /\ job'.offered = job.offered /\ job'.pc = "llama"
    BY <1>1, <2>1, ZenonT(60) DEF JobFields
  <2>3. Tried(job')
    BY <1>1, <2>2 DEF Tried, Same
  <2> QED BY <1>1, <2>3, TriedKeeps
<1>6. CASE f = none
  <2>1. PICK why : why = IF job.gens > 0 THEN "runtime" ELSE "refused"
    OBVIOUS
  <2>2. job' = Ends(job, why)
    <3>1. job' = Ends(job, IF job.gens > 0 THEN "runtime" ELSE "refused")
      BY <1>2, <1>6, Zenon
    <3> QED BY <2>1, <3>1, Zenon
  <2>3. /\ DOMAIN job' = JobFields /\ job'.gens = job.gens /\ job'.model = job.model
        /\ job'.asked = job.asked /\ job'.kind = job.kind /\ job'.own = job.own
        /\ job'.checked = job.checked /\ job'.offered = job.offered
        /\ job'.pc = "failed" /\ job'.error = why
    BY <1>1, <2>2, ZenonT(60) DEF JobFields, Ends
  <2>4. Same(job')
    BY <2>3 DEF Same
  <2>5. job'.checked => Promised(job)'
    BY <1>1, <2>3, <2>4, PromiseStays
  <2>6. Served(job)'
    <3>1. CASE job.gens > 0
      BY <2>1, <2>3, <3>1 DEF Served
    <3>2. CASE ~(job.gens > 0)
      <4> SUFFICES ASSUME job.checked, job.own, ~Unreadable,
                          \/ active # none /\ job.asked \in {none, active}
                          \/ job.offered /\ faults = 0
                   PROVE  FALSE
        BY <1>3, <2>3 DEF Served
      <4>1. backend = "llama" /\ ~adopted.some
        BY <1>1, <3>2 DEF ServeInv, JobInv, Looks
      <4>2. none \notin resolve_model_path(job.model) /\ job.model \in Models
        <5>1. Promised(job) /\ Able
          BY <1>4 DEF Promised
        <5>2. active \in Models \cup {none} /\ none \notin Models
          BY ZeroIsNoModel DEF CacheInv, CacheTypes
        <5>3. CASE active # none /\ job.asked \in {none, active}
          <6>1. job.model = active
            BY <4>1, <5>1, <5>3 DEF Promised
          <6> QED BY <4>1, <5>1, <5>2, <5>3, <6>1 DEF Able
        <5>4. CASE job.offered /\ faults = 0
          <6>1. Offered(job.asked) /\ job.asked # none
            BY <5>1, <5>2, <5>4 DEF Promised, Offered
          <6>2. job.model = job.asked
            BY <4>1, <5>1, <6>1 DEF Promised
          <6> QED BY <4>1, <5>4, <6>1, <6>2 DEF Offered
        <5> QED BY <5>3, <5>4
      <4>3. job.model # -1
        BY <4>2, CacheAssumption
      <4> QED BY <1>2, <1>6, <4>2, <4>3 DEF FileOf
    <3> QED BY <3>1, <3>2
  <2>7. Looks(job)'
    BY <2>3 DEF Looks
  <2> QED BY <1>1, <2>3, <2>5, <2>6, <2>7, JobKeeps
<1> QED BY <1>5, <1>6

(* The job for which nothing is known. *)
LEMMA WaitingIs ==
    /\ DOMAIN waiting = JobFields /\ waiting.gens = 0 /\ waiting.pc = "none" /\ ~waiting.checked
  BY DEF waiting, JobFields

LEMMA ReportedKeeps == ServeInv /\ Reported => ServeInv'
<1> SUFFICES ASSUME ServeInv, Reported PROVE ServeInv'
  OBVIOUS
<1>1. job' = waiting /\ UNCHANGED <<cacheVars, nodeVars>>
  BY DEF Reported
<1>2. Looks(job)' /\ Served(job)' /\ DOMAIN job' = JobFields /\ job'.gens = 0 /\ job'.pc = "none"
  BY <1>1, WaitingIs DEF Looks, Served
<1> QED BY <1>1, <1>2, JobKeeps

LEMMA ClaimKeeps == ServeInv /\ CacheInv /\ Claims => ServeInv'
<1> SUFFICES ASSUME ServeInv, CacheInv, Claims PROVE ServeInv'
  OBVIOUS
<1>1. report.healthy /\ UNCHANGED <<cacheVars, nodeVars>>
  BY DEF Claims
<1>2. PICK r \in Requests :
        job' = [waiting EXCEPT !.pc = "claimed", !.asked = r.asked, !.kind = r.kind,
                               !.live = r.live, !.own = r.own,
                               !.model = resolve_job_model(r.asked),
                               !.checked = report.fresh,
                               !.offered = /\ r.asked \in report.models
                                           /\ r.kind = "native" => report.tools]
  BY DEF Claims
<1>3. PICK model, offered :
        /\ model = resolve_job_model(r.asked)
        /\ offered = (/\ r.asked \in report.models
                      /\ r.kind = "native" => report.tools)
  OBVIOUS
<1>4. job' = [waiting EXCEPT !.pc = "claimed", !.asked = r.asked, !.kind = r.kind,
                             !.live = r.live, !.own = r.own, !.model = model,
                             !.checked = report.fresh, !.offered = offered]
  BY <1>2, <1>3, Zenon
<1>5. /\ DOMAIN job' = JobFields /\ job'.gens = 0 /\ job'.pc = "claimed"
      /\ job'.asked = r.asked /\ job'.model = model
      /\ job'.checked = report.fresh /\ job'.offered = offered
  BY <1>4, WaitingIs, ZenonT(60) DEF JobFields
<1>6. UNCHANGED <<Able, adopted, active>> /\ \A m : Offered(m)' <=> Offered(m)
  BY <1>1, Frame
<1>7. ASSUME job'.checked PROVE Promised(job)'
  <2>1. Able /\ \A m \in report.models : Offered(m)
    BY <1>1, <1>5, <1>7 DEF ServeInv, ReportInv
  <2>2. offered => Offered(r.asked)
    BY <1>3, <2>1
  <2>3. model = IF r.asked # none THEN r.asked ELSE active
    BY <1>3 DEF resolve_job_model
  <2> QED BY <1>5, <1>6, <2>1, <2>2, <2>3 DEF Promised
<1>8. Looks(job)' /\ Served(job)'
  BY <1>5 DEF Looks, Served
<1> QED BY <1>1, <1>5, <1>7, <1>8, JobKeeps

-----------------------------------------------------------------------------
(* The health report.                                                       *)

(* A node that is found healthy can serve its active model. *)
LEMMA HealthyIsAble ==
    ASSUME CacheInv, ClusterInv, NEW path \in resolve_model_path(active), NEW device,
           ~adopted.some => LocalHealth(path, device)
    PROVE  Able
<1>1. SUFFICES ASSUME ~adopted.some
               PROVE  /\ backend = "vllm" => active # none /\ Warm
                      /\ backend = "llama" /\ ~Unreadable => none \notin resolve_model_path(active)
  BY DEF Able
<1>2. LocalHealth(path, device)
  BY <1>1
<1>3. backend = "vllm" => active # none /\ Warm
  BY <1>2 DEF LocalHealth
<1>4. backend = "llama" => path # none
  BY <1>2 DEF LocalHealth
<1> QED BY <1>3, <1>4, FoundOrNot

(* Between commands and without a fault, what is advertised can be found. *)
LEMMA AdvertisedIsThere ==
    ASSUME CacheInv, FaultInv, ClusterInv, Able, op.kind = "idle", NEW fits,
           NEW one \in active_model_capability,
           NEW m \in build_scheduler_capabilities(fits, one)
    PROVE  Offered(m)
<1>1. DOMAIN manifest \subseteq Models /\ active \in Models \cup {none}
  BY CacheIs DEF CacheInv, CacheTypes
<1>2. CASE adopted.some
  <2>1. m \in adopted.models \cup {adopted.model}
    BY <1>2 DEF build_scheduler_capabilities
  <2> QED BY <1>2, <2>1 DEF Offered, ClusterInv
<1>3. CASE ~adopted.some
  <2>1. m \in available_model_capabilities \/ (m = one /\ one # none)
    BY <1>3 DEF build_scheduler_capabilities
  <2>2. active_model_name_from_cache \subseteq Models
    BY <1>1 DEF active_model_name_from_cache
  <2>3. m \in Models
    BY <1>1, <2>1, <2>2 DEF available_model_capabilities, active_model_capability
  <2>4. ASSUME backend = "llama", faults = 0, ~Unreadable
        PROVE  none \notin resolve_model_path(m)
    <3>1. CASE m \in available_model_capabilities
      <4>1. m \in DOMAIN manifest /\ manifest[m].source
        BY <3>1 DEF available_model_capabilities
      <4> QED BY <2>4, <4>1, InstalledIsFound DEF FaultInv
    <3>2. CASE m = one /\ one # none /\ m = active
      BY <1>3, <2>4, <3>2 DEF Able
    <3>3. CASE m = one /\ one # none /\ m # active
      <4>1. /\ m \in DOMAIN manifest /\ manifest[m].active
            /\ active \notin DOMAIN manifest
        BY <2>4, <3>3 DEF active_model_capability, active_model_name_from_cache, Unreadable
      <4>2. op.step = "idle" /\ ~op.torn
        BY <2>4 DEF CacheInv, OpInv, FaultInv
      <4>3. active # none => Chosen(manifest, active)
        BY <4>2 DEF CacheInv, SaveInv, Unsaved
      <4>4. active = none
        BY <4>1, <4>3 DEF Chosen
      <4>5. none \notin resolve_model_path(active)
        BY <1>3, <2>4 DEF Able
      <4> QED BY <2>4, <4>1, <4>4, <4>5, ActiveByName
    <3> QED BY <2>1, <3>1, <3>2, <3>3
  <2> QED BY <1>3, <2>3, <2>4 DEF Offered
<1> QED BY <1>2, <1>3

LEMMA ProbeKeeps == ServeInv /\ CacheInv /\ FaultInv /\ probe_worker_health => ServeInv'
<1> SUFFICES ASSUME ServeInv, CacheInv, FaultInv, probe_worker_health PROVE ServeInv'
  OBVIOUS
<1>1. /\ UNCHANGED <<cacheVars, backend, tools, server, cluster, adopted, probe, job, changes>>
      /\ job.pc = "none"
  BY DEF probe_worker_health
<1>2. /\ UNCHANGED <<Able, Unreadable, backend, adopted, active, faults, job>>
      /\ \A m : Offered(m)' <=> Offered(m)
      /\ ClusterInv'
  <2>1. UNCHANGED <<Able, Unreadable, backend, cluster, adopted, active, faults, job>>
    BY <1>1 DEF Able, Warm, resolve_model_path, Searched, imported_model_path_from_cache,
       active_model_name_from_cache, PathIn, Unreadable, cacheVars
  <2>2. \A m : Offered(m)' <=> Offered(m)
    BY <1>1 DEF Offered, Warm, resolve_model_path, Searched, imported_model_path_from_cache,
       active_model_name_from_cache, PathIn, Unreadable, cacheVars
  <2> QED BY <2>1, <2>2 DEF ServeInv, ClusterInv
<1>3. PICK path \in resolve_model_path(active), percent \in {0, 20, 21},
           power \in PowerStates, device \in Devices,
           fits \in SUBSET Models, one \in active_model_capability :
        LET healthy == IF adopted.some THEN contributed_cluster_health ELSE LocalHealth(path, device)
        IN  report' = [healthy |-> probe_worker_policy(healthy, percent, power),
                       fresh |-> op.kind = "idle",
                       models |-> build_scheduler_capabilities(fits, one),
                       tools |-> supports_tools]
  BY DEF probe_worker_health
<1>4. PICK healthy : healthy = IF adopted.some THEN contributed_cluster_health
                               ELSE LocalHealth(path, device)
  OBVIOUS
<1>5. report' = [healthy |-> probe_worker_policy(healthy, percent, power),
                 fresh |-> op.kind = "idle",
                 models |-> build_scheduler_capabilities(fits, one),
                 tools |-> supports_tools]
  BY <1>3, <1>4, Zenon
<1>6. /\ DOMAIN report' = {"healthy", "fresh", "models", "tools"}
      /\ report'.healthy = probe_worker_policy(healthy, percent, power)
      /\ report'.fresh = (op.kind = "idle")
      /\ report'.models = build_scheduler_capabilities(fits, one)
  BY <1>5
<1>7. ASSUME report'.healthy, report'.fresh
      PROVE  Able /\ \A m \in report'.models : Offered(m)
  <2>1. healthy /\ op.kind = "idle"
    BY <1>6, <1>7 DEF probe_worker_policy
  <2>2. ClusterInv /\ (~adopted.some => LocalHealth(path, device))
    BY <1>4, <2>1 DEF ServeInv
  <2>3. Able
    BY <2>2, HealthyIsAble
  <2> QED BY <1>6, <2>1, <2>2, <2>3, AdvertisedIsThere
<1>8. ReportInv'
  BY <1>2, <1>6, <1>7 DEF ReportInv
<1>9. JobInv'
  BY <1>1, <1>2 DEF ServeInv, JobInv, Looks, Served
<1> QED BY <1>2, <1>8, <1>9 DEF ServeInv

-----------------------------------------------------------------------------
(* The surroundings.                                                        *)

LEMMA NobodyIs ==
    /\ nobody \in [some : BOOLEAN, model : Models \cup {none}, models : SUBSET Models,
                   tools : BOOLEAN]
    /\ ~nobody.some
  BY DEF nobody

LEMMA ChangeKeeps ==
    /\ ServeInv
    /\ \/ ServerStarts \/ ServerDies \/ ClusterChanges \/ run_cluster_use \/ run_cluster_forget
       \/ ToolUntrusted
       \/ CacheStep /\ Stale /\ UNCHANGED <<backend, tools, server, cluster, adopted, probe, changes>>
    => ServeInv'
<1>1. ServeInv /\ UNCHANGED <<backend, cluster, adopted>> => ClusterInv'
  BY DEF ServeInv, ClusterInv
<1>2. ServeInv /\ Stale /\ UNCHANGED <<backend, cluster, adopted>> => ServeInv'
  BY <1>1, NothingPromised
<1>3. ServeInv /\ (ServerStarts \/ ServerDies \/ ToolUntrusted) => ServeInv'
  BY <1>2 DEF ServerStarts, ServerDies, ToolUntrusted
<1>4. ServeInv /\ ClusterChanges => ServeInv'
  <2> SUFFICES ASSUME ServeInv, ClusterChanges PROVE ServeInv'
    OBVIOUS
  <2>1. Stale /\ UNCHANGED <<backend, adopted>>
    BY DEF ClusterChanges
  <2>2. cluster \in [up : BOOLEAN, serves : SUBSET Models, tools : BOOLEAN]
    BY DEF ServeInv, ClusterInv
  <2>3. cluster' \in [up : BOOLEAN, serves : SUBSET Models, tools : BOOLEAN]
    <3>1. CASE cluster' = [cluster EXCEPT !.up = ~@]
      BY <2>2, <3>1
    <3>2. CASE \E m \in Models, t \in BOOLEAN :
                  cluster' = [cluster EXCEPT !.serves = {m}, !.tools = t]
      <4>1. PICK m \in Models, t \in BOOLEAN :
               cluster' = [cluster EXCEPT !.serves = {m}, !.tools = t]
        BY <3>2
      <4>2. {m} \in SUBSET Models
        OBVIOUS
      <4> QED BY <2>2, <4>1, <4>2, ZenonT(60)
    <3> QED BY <3>1, <3>2 DEF ClusterChanges
  <2>4. ClusterInv'
    BY <2>1, <2>3 DEF ServeInv, ClusterInv
  <2> QED BY <2>1, <2>4, NothingPromised
<1>5. ServeInv /\ run_cluster_use => ServeInv'
  <2> SUFFICES ASSUME ServeInv, run_cluster_use PROVE ServeInv'
    OBVIOUS
  <2>1. Stale /\ UNCHANGED <<backend, cluster>>
    BY DEF run_cluster_use
  <2>2. PICK m \in cluster.serves, t \in {FALSE, cluster.tools} :
           adopted' = [some |-> TRUE, model |-> m, models |-> cluster.serves, tools |-> t]
    BY DEF run_cluster_use
  <2>3. cluster.serves \in SUBSET Models /\ cluster.tools \in BOOLEAN
    BY DEF ServeInv, ClusterInv
  <2>4. m \in Models /\ t \in BOOLEAN
    BY <2>3
  <2>5. /\ adopted' \in [some : BOOLEAN, model : Models \cup {none}, models : SUBSET Models,
                          tools : BOOLEAN]
        /\ adopted'.model \in Models
    BY <2>2, <2>3, <2>4
  <2>6. ClusterInv'
    BY <2>1, <2>5 DEF ServeInv, ClusterInv
  <2> QED BY <2>1, <2>6, NothingPromised
<1>6. ServeInv /\ run_cluster_forget => ServeInv'
  <2> SUFFICES ASSUME ServeInv, run_cluster_forget PROVE ServeInv'
    OBVIOUS
  <2>1. Stale /\ UNCHANGED <<backend, cluster>> /\ adopted' = nobody
    BY DEF run_cluster_forget
  <2>2. ClusterInv'
    BY <2>1, NobodyIs DEF ServeInv, ClusterInv
  <2> QED BY <2>1, <2>2, NothingPromised
<1> QED BY <1>2, <1>3, <1>4, <1>5, <1>6

(* The answer of a tool probe changes nothing but the tools. *)
LEMMA ToolProbeKeeps == ServeInv /\ (ToolProbeStarts \/ ToolProbeEnds) => ServeInv'
<1> SUFFICES ASSUME ServeInv, ToolProbeStarts \/ ToolProbeEnds PROVE ServeInv'
  OBVIOUS
<1>1. UNCHANGED <<cacheVars, backend, server, cluster, report, job>>
  BY DEF ToolProbeStarts, ToolProbeEnds
<1>2. /\ adopted' \in [some : BOOLEAN, model : Models \cup {none}, models : SUBSET Models,
                       tools : BOOLEAN]
      /\ adopted'.some = adopted.some /\ adopted'.model = adopted.model
      /\ adopted'.models = adopted.models
  <2>1. adopted \in [some : BOOLEAN, model : Models \cup {none}, models : SUBSET Models,
                     tools : BOOLEAN]
    BY DEF ServeInv, ClusterInv
  <2>2. adopted' = adopted \/ adopted' = [adopted EXCEPT !.tools = TRUE]
    BY DEF ToolProbeStarts, ToolProbeEnds
  <2> QED BY <2>1, <2>2
<1>3. UNCHANGED <<Able, Unreadable, active, faults>>
  BY <1>1, <1>2 DEF Able, Warm, resolve_model_path, Searched, imported_model_path_from_cache,
     active_model_name_from_cache, PathIn, Unreadable, cacheVars
<1>4. \A m : Offered(m)' <=> Offered(m)
  BY <1>1, <1>2 DEF Offered, resolve_model_path, Searched, imported_model_path_from_cache,
     active_model_name_from_cache, PathIn, Unreadable, cacheVars
<1>5. ClusterInv'
  BY <1>1, <1>2 DEF ServeInv, ClusterInv
<1>6. ReportInv'
  BY <1>1, <1>3, <1>4 DEF ServeInv, ReportInv
<1>7. JobInv'
  BY <1>1, <1>2, <1>3, <1>4 DEF ServeInv, JobInv, Promised, Looks, Served
<1> QED BY <1>5, <1>6, <1>7 DEF ServeInv

LEMMA ServeInitially == Init => ServeInv
<1> SUFFICES ASSUME Init PROVE ServeInv
  OBVIOUS
<1>1. backend \in {"llama", "mlx", "vllm"}
  BY ExecutionAssumption DEF Init
<1>2. PICK m \in Models : cluster = [up |-> TRUE, serves |-> {m}, tools |-> TRUE]
  BY DEF Init
<1>3. /\ cluster \in [up : BOOLEAN, serves : SUBSET Models, tools : BOOLEAN]
      /\ cluster.serves = {m}
  BY <1>2
<1>4. \/ adopted = nobody
      \/ adopted = [some |-> TRUE, model |-> m, models |-> {m}, tools |-> FALSE]
  BY <1>3 DEF Init
<1>5. ClusterInv
  <2>1. CASE adopted = nobody
    BY <1>1, <1>3, <2>1, NobodyIs DEF ClusterInv
  <2>2. CASE adopted = [some |-> TRUE, model |-> m, models |-> {m}, tools |-> FALSE]
    <3>1. /\ adopted \in [some : BOOLEAN, model : Models \cup {none}, models : SUBSET Models,
                           tools : BOOLEAN]
          /\ adopted.model \in Models
      BY <2>2
    <3> QED BY <1>1, <1>3, <3>1 DEF ClusterInv
  <2> QED BY <1>4, <2>1, <2>2
<1>6. ReportInv
  BY DEF Init, ReportInv
<1>7. JobInv
  BY WaitingIs DEF Init, JobInv, Looks, Served
<1> QED BY <1>5, <1>6, <1>7 DEF ServeInv

LEMMA ServeStep == ServeInv /\ CacheInv /\ FaultInv /\ [Next]_vars => ServeInv'
<1> SUFFICES ASSUME ServeInv, CacheInv, FaultInv, [Next]_vars PROVE ServeInv'
  OBVIOUS
<1>1. CASE UNCHANGED vars
  <2>1. UNCHANGED <<cacheVars, nodeVars, job>>
    BY <1>1 DEF vars
  <2>2. UNCHANGED <<Able, Unreadable, adopted, active, faults, backend>>
        /\ \A m : Offered(m)' <=> Offered(m)
    BY <2>1, Frame
  <2> QED BY <2>1, <2>2, JobKeeps DEF ServeInv, JobInv, Promised, Looks, Served
<1>2. CASE Surroundings
  BY <1>2, ChangeKeeps, ToolProbeKeeps DEF Surroundings
<1>3. CASE probe_worker_health \/ Claims
  BY <1>3, ProbeKeeps, ClaimKeeps
<1>4. CASE Worker
  BY <1>4, ExecuteKeeps, RemoteKeeps, NativeKeeps, WarmMlxKeeps, MlxCommandKeeps, ResolveKeeps,
     LlamaServerKeeps, LlamaCommandKeeps, ReportedKeeps DEF Worker
<1> QED BY <1>1, <1>2, <1>3, <1>4 DEF Next

(* What the report promised, the job can rely on until something changes. *)
THEOREM ReportIsKept == Spec => []ServeInv
BY CacheUnderJob, ServeInitially, ServeStep, PTL DEF Spec

(* The health report and the execution agree: a job for the active model of a
   node that was found healthy fails only if a generation does. *)
THEOREM HealthIsServed == Spec => []HealthyServes
<1>1. ServeInv => HealthyServes
  BY DEF ServeInv, JobInv, Served, HealthyServes
<1> QED BY <1>1, ReportIsKept, PTL

(* What the node advertises it serves, as long as no command was killed and no
   source file deleted. *)
THEOREM AdvertisementIsServed == Spec => []AdvertisedIsServed
<1>1. ServeInv => AdvertisedIsServed
  BY DEF ServeInv, JobInv, Served, AdvertisedIsServed
<1> QED BY <1>1, ReportIsKept, PTL

-----------------------------------------------------------------------------
(* What is streamed.                                                        *)

IsText(s) == \E S : s \in Seq(S)

\* A text of which no character is a fragment of a tool call.
Prose(s) == IsText(s) /\ \A i \in 1..Len(s) : ~IsTool(s[i])

\* The text t without its white space at the end is its first n characters.
EndsAt(t, n) ==
    /\ n \in 0..Len(t) /\ (n > 0 => Solid(t[n]))
    /\ \A i \in (n + 1)..Len(t) : ~Solid(t[i])

(* A set of natural numbers has a least one: induction, by the least          *)
(* counterexample.                                                          *)
LEMMA LeastExists ==
    ASSUME NEW T, T \subseteq Nat, T # {}
    PROVE  \E n \in T : \A m \in T : n <= m
<1>1. PICK R : R = OpToRel(<, Nat)
  OBVIOUS
<1>2. IsWellFoundedOn(R, Nat)
  BY <1>1, NatLessThanWellFounded
<1>3. PICK n \in T : \A m \in T : ~ (<<m, n>> \in R)
  BY <1>2, WFMin
<1>4. \A m \in Nat, k \in Nat : m < k => <<m, k>> \in R
  BY <1>1 DEF OpToRel
<1>5. \A m \in T : ~ (m < n)
  BY <1>3, <1>4
<1> QED BY <1>5

LEMMA EndExists ==
    ASSUME NEW t, IsText(t)
    PROVE  \E n : EndsAt(t, n)
<1>1. Len(t) \in Nat
  BY DEF IsText
<1>2. PICK T : T = {m \in 0..Len(t) : \A i \in (m + 1)..Len(t) : ~Solid(t[i])}
  OBVIOUS
<1>3. T \subseteq Nat /\ Len(t) \in T
  BY <1>1, <1>2
<1>4. PICK n \in T : \A m \in T : n <= m
  BY <1>3, LeastExists
<1>5. n > 0 => Solid(t[n])
  <2> SUFFICES ASSUME n > 0, ~Solid(t[n]) PROVE FALSE
    OBVIOUS
  <2>1. n \in Nat /\ n - 1 \in 0..Len(t) /\ \A i \in (n + 1)..Len(t) : ~Solid(t[i])
    BY <1>1, <1>2, <1>4
  <2>2. \A i \in ((n - 1) + 1)..Len(t) : ~Solid(t[i])
    <3>1. \A i \in ((n - 1) + 1)..Len(t) : i = n \/ i \in (n + 1)..Len(t)
      BY <1>1, <2>1
    <3> QED BY <2>1, <3>1
  <2>3. n - 1 \in T
    BY <1>2, <2>1, <2>2
  <2> QED BY <1>4, <2>1, <2>3
<1> QED BY <1>2, <1>4, <1>5 DEF EndsAt

LEMMA TrimStartIs ==
    ASSUME NEW S, NEW t \in Seq(S)
    PROVE  /\ TrimStart(t) \in Seq(S)
           /\ \A i \in 1..Len(TrimStart(t)) : \E k \in 1..Len(t) : TrimStart(t)[i] = t[k]
<1>1. PICK first : first = {i \in DOMAIN t : Solid(t[i])}
  OBVIOUS
<1>2. Len(t) \in Nat /\ DOMAIN t = 1..Len(t)
  OBVIOUS
<1>3. CASE first = {}
  <2>1. TrimStart(t) = <<>>
    BY <1>1, <1>3 DEF TrimStart
  <2> QED BY <2>1
<1>4. CASE first # {}
  <2>1. first \subseteq Nat
    BY <1>1, <1>2
  <2>2. PICK c : c = CHOOSE i \in first : \A k \in first : i <= k
    OBVIOUS
  <2>3. c \in first
    BY <1>4, <2>1, <2>2, LeastExists
  <2>4. c \in 1..Len(t)
    BY <1>1, <1>2, <2>3
  <2>5. TrimStart(t) = SubSeq(t, c, Len(t))
    BY <1>1, <1>4, <2>2, Zenon DEF TrimStart
  <2>6. SubSeq(t, c, Len(t)) \in Seq(S) /\ Len(SubSeq(t, c, Len(t))) = Len(t) - c + 1
    BY <1>2, <2>4
  <2>7. \A i \in 1..(Len(t) - c + 1) :
           c + i - 1 \in 1..Len(t) /\ SubSeq(t, c, Len(t))[i] = t[c + i - 1]
    BY <1>2, <2>4
  <2> QED BY <2>5, <2>6, <2>7
<1> QED BY <1>3, <1>4

LEMMA ReverseIs ==
    ASSUME NEW S, NEW t \in Seq(S)
    PROVE  /\ Reverse(t) \in Seq(S) /\ Len(Reverse(t)) = Len(t)
           /\ \A i \in 1..Len(t) : Reverse(t)[i] = t[Len(t) - i + 1]
<1>1. Len(t) \in Nat /\ \A i \in 1..Len(t) : Len(t) - i + 1 \in 1..Len(t) /\ t[Len(t) - i + 1] \in S
  OBVIOUS
<1>2. Reverse(t) = [i \in 1..Len(t) |-> t[Len(t) - i + 1]]
  BY DEF Reverse
<1>3. Reverse(t) \in [1..Len(t) -> S]
  BY <1>1, <1>2
<1> QED BY <1>1, <1>2, <1>3

(* What is left of a text whose last solid character is the n-th. *)
LEMMA TrimEndIs ==
    ASSUME NEW t, IsText(t), NEW n, EndsAt(t, n)
    PROVE  TrimEnd(t) = SubSeq(t, 1, n)
<1>1. PICK S : t \in Seq(S)
  BY DEF IsText
<1>2. PICK l : l = Len(t)
  OBVIOUS
<1>3. l \in Nat /\ n \in 0..l /\ (n > 0 => Solid(t[n])) /\ \A i \in (n + 1)..l : ~Solid(t[i])
  BY <1>1, <1>2 DEF EndsAt
<1>4. PICK r : r = Reverse(t)
  OBVIOUS
<1>5. r \in Seq(S) /\ Len(r) = l /\ DOMAIN r = 1..l /\ \A i \in 1..l : r[i] = t[l - i + 1]
  BY <1>1, <1>2, <1>4, ReverseIs
<1>6. PICK first : first = {i \in DOMAIN r : Solid(r[i])}
  OBVIOUS
<1>7. \A i \in first : i \in 1..l /\ i >= l - n + 1
  <2>1. ASSUME NEW i \in 1..l, Solid(r[i]), i < l - n + 1 PROVE FALSE
    <3>1. r[i] = t[l - i + 1] /\ l - i + 1 \in (n + 1)..l
      BY <1>3, <1>5, <2>1
    <3> QED BY <1>3, <2>1, <3>1
  <2> QED BY <1>3, <1>5, <1>6, <2>1
<1>8. CASE n = 0
  <2>1. first = {}
    BY <1>3, <1>7, <1>8
  <2>2. TrimStart(r) = <<>>
    BY <1>6, <2>1 DEF TrimStart
  <2>3. TrimEnd(t) = Reverse(<<>>)
    BY <1>4, <2>2 DEF TrimEnd
  <2>4. <<>> \in Seq({})
    OBVIOUS
  <2>5. Reverse(<<>>) \in Seq({}) /\ Len(Reverse(<<>>)) = 0
    BY <2>4, ReverseIs
  <2>6. Reverse(<<>>) = <<>>
    BY <2>5
  <2>7. SubSeq(t, 1, 0) = <<>>
    BY <1>1
  <2> QED BY <1>8, <2>3, <2>6, <2>7
<1>9. CASE n > 0
  <2>1. PICK c : c = l - n + 1
    OBVIOUS
  <2>2. c \in 1..l /\ r[c] = t[n]
    BY <1>3, <1>5, <1>9, <2>1
  <2>3. c \in first /\ \A k \in first : c <= k
    BY <1>3, <1>5, <1>6, <1>7, <1>9, <2>1, <2>2
  <2>4. \A i \in first : (\A k \in first : i <= k) => i = c
    BY <1>3, <1>7, <2>2, <2>3
  <2>5. (CHOOSE i \in first : \A k \in first : i <= k) = c
    BY <2>3, <2>4
  <2>6. TrimStart(r) = SubSeq(r, c, l)
    <3>1. first # {}
      BY <2>3
    <3>2. TrimStart(r) = SubSeq(r, CHOOSE i \in first : \A k \in first : i <= k, Len(r))
      BY <1>6, <3>1, Zenon DEF TrimStart
    <3> QED BY <1>5, <2>5, <3>2
  <2>7. PICK s : s = SubSeq(r, c, l)
    OBVIOUS
  <2>8. s \in Seq(S) /\ Len(s) = n /\ \A i \in 1..n : s[i] = r[c + i - 1]
    BY <1>3, <1>5, <1>9, <2>1, <2>2, <2>7, SMTT(30)
  <2>9. PICK b : b = Reverse(s)
    OBVIOUS
  <2>10. b \in Seq(S) /\ Len(b) = n /\ \A i \in 1..n : b[i] = s[n - i + 1]
    BY <2>8, <2>9, ReverseIs
  <2>11. \A i \in 1..n : b[i] = t[i]
    <3> SUFFICES ASSUME NEW i \in 1..n PROVE b[i] = t[i]
      OBVIOUS
    <3>1. n - i + 1 \in 1..n /\ c + (n - i + 1) - 1 = l - i + 1 /\ l - i + 1 \in 1..l
          /\ l - (l - i + 1) + 1 = i
      BY <1>3, <2>1
    <3>2. s[n - i + 1] = r[l - i + 1]
      BY <2>8, <3>1
    <3>3. r[l - i + 1] = t[i]
      BY <1>5, <3>1
    <3> QED BY <2>10, <3>2, <3>3
  <2>12. PICK h : h = SubSeq(t, 1, n)
    OBVIOUS
  <2>13. h \in Seq(S) /\ Len(h) = n /\ \A i \in 1..n : h[i] = t[i]
    BY <1>1, <1>2, <1>3, <2>12
  <2>14. b = h
    BY <2>10, <2>11, <2>13
  <2>15. TrimEnd(t) = b
    BY <1>4, <2>6, <2>7, <2>9 DEF TrimEnd
  <2> QED BY <2>12, <2>14, <2>15
<1> QED BY <1>3, <1>8, <1>9

\* What begins a text, from its last solid character on, ends there as well.
LEMMA BeginningEnds ==
    ASSUME NEW t, IsText(t), NEW n, EndsAt(t, n), NEW k \in n..Len(t)
    PROVE  LET s == SubSeq(t, 1, k)
           IN  IsText(s) /\ Len(s) = k /\ EndsAt(s, n) /\ SubSeq(s, 1, n) = SubSeq(t, 1, n)
<1>1. PICK S : t \in Seq(S)
  BY DEF IsText
<1>2. Len(t) \in Nat /\ n \in 0..Len(t) /\ k \in Nat /\ n <= k /\ k <= Len(t)
  BY <1>1 DEF EndsAt
<1>3. PICK s : s = SubSeq(t, 1, k)
  OBVIOUS
<1>4. s \in Seq(S) /\ Len(s) = k /\ \A i \in 1..k : s[i] = t[i]
  BY <1>1, <1>2, <1>3
<1>5. EndsAt(s, n)
  BY <1>2, <1>4 DEF EndsAt
<1>6. SubSeq(s, 1, n) = SubSeq(t, 1, n)
  <2>1. PICK a, b : a = SubSeq(s, 1, n) /\ b = SubSeq(t, 1, n)
    OBVIOUS
  <2>2. a \in Seq(S) /\ Len(a) = n /\ \A i \in 1..n : a[i] = s[i]
    BY <1>2, <1>4, <2>1
  <2>3. b \in Seq(S) /\ Len(b) = n /\ \A i \in 1..n : b[i] = t[i]
    BY <1>1, <1>2, <2>1
  <2>4. \A i \in 1..n : a[i] = b[i]
    BY <1>2, <1>4, <2>2, <2>3
  <2>5. a = b
    BY <2>2, <2>3, <2>4
  <2> QED BY <2>1, <2>5
<1> QED BY <1>3, <1>4, <1>5, <1>6 DEF IsText

(* What a request returns.                                                  *)

Letters(g) == {g} \X Nat \X {"a", "_"}

LEMMA SequencesAre ==
    /\ \A n \in Nat : \A i \in 1..n : i \in Nat
    /\ \A n \in Nat : \A S : \A f \in [1..n -> S] : f \in Seq(S)
    /\ \A S : \A s \in Seq(S) : s \in [1..Len(s) -> S]
    /\ \A S : <<>> \in Seq(S)
    /\ \A S : \A x \in S : <<x>> \in Seq(S) /\ Len(<<x>>) = 1
    /\ \A S : \A x, y \in S : <<x, y>> \in Seq(S)
  OBVIOUS

LEMMA LettersAreProse ==
    ASSUME NEW g, NEW t \in Seq(Letters(g))
    PROVE  IsText(t) /\ Prose(t) /\ t \in Seq(Letters(g))
<1>1. ASSUME NEW c \in Letters(g) PROVE ~IsTool(c)
  <2>1. c[3] \in {"a", "_"}
    BY <1>1 DEF Letters
  <2> QED BY <2>1 DEF IsTool
<1>2. \A i \in 1..Len(t) : t[i] \in Letters(g)
  OBVIOUS
<1> QED BY <1>1, <1>2 DEF IsText, Prose

LEMMA NothingIsProse == IsText(<<>>) /\ Prose(<<>>) /\ TrimEnd(<<>>) = <<>>
<1>1. <<>> \in Seq(Letters(0)) /\ Len(<<>>) = 0
  OBVIOUS
<1>2. EndsAt(<<>>, 0)
  BY <1>1 DEF EndsAt
<1>3. IsText(<<>>) /\ Prose(<<>>)
  BY <1>1, LettersAreProse
<1>4. TrimEnd(<<>>) = SubSeq(<<>>, 1, 0)
  BY <1>2, <1>3, TrimEndIs
<1>5. SubSeq(<<>>, 1, 0) = <<>>
  OBVIOUS
<1> QED BY <1>3, <1>4, <1>5

LEMMA CharsAre ==
    ASSUME NEW g, NEW n \in Nat, NEW body \in [1..n -> {"a", "_"}]
    PROVE  Chars(g, body) \in Seq(Letters(g))
<1>1. Chars(g, body) = [i \in 1..n |-> <<g, i, body[i]>>]
  BY DEF Chars
<1>2. \A i \in 1..n : i \in Nat
  BY SequencesAre, Zenon
<1>3. \A i \in 1..n : body[i] \in {"a", "_"}
  BY Zenon
<1>4. \A i \in 1..n : <<g, i, body[i]>> \in Letters(g)
  BY <1>2, <1>3, Zenon DEF Letters
<1>5. Chars(g, body) \in [1..n -> Letters(g)]
  BY <1>1, <1>4, Zenon
<1> QED BY <1>5, SequencesAre, Zenon

LEMMA BodiesAre ==
    ASSUME NEW g, NEW body \in Bodies
    PROVE  Chars(g, body) \in Seq(Letters(g))
<1>1. \E n \in Nat : body \in [1..n -> {"a", "_"}]
  <2>1. CASE job.kind = "speakai"
    <3>1. body = <<"a">>
      BY <2>1 DEF Bodies
    <3>2. <<"a">> \in [1..1 -> {"a", "_"}]
      BY SequencesAre, Zenon
    <3> QED BY <3>1, <3>2
  <2>2. CASE job.kind # "speakai"
    <3>1. body \in UNION {[1..n -> {"a", "_"}] : n \in 0..MaxBody}
      BY <2>2, Zenon DEF Bodies
    <3>2. \A n \in 0..MaxBody : n \in Nat
      BY ExecutionAssumption
    <3> QED BY <3>1, <3>2
  <2> QED BY <2>1, <2>2
<1> QED BY <1>1, CharsAre

(* The text is the beginning of what was generated, up to its last solid    *)
(* character, and so is what remains of anything longer that was sent.      *)
LEMMA TextIs ==
    ASSUME NEW g, NEW all \in Seq(Letters(g))
    PROVE  /\ Len(TrimEnd(all)) \in 0..Len(all)
           /\ TrimEnd(all) \in Seq(Letters(g))
           /\ TrimEnd(TrimEnd(all)) = TrimEnd(all)
           /\ \A k \in Len(TrimEnd(all))..Len(all) :
                 TrimEnd(SubSeq(all, 1, k)) = TrimEnd(all)
<1>1. IsText(all) /\ Len(all) \in Nat
  BY LettersAreProse
<1>2. PICK n : EndsAt(all, n)
  BY <1>1, EndExists
<1>3. PICK t : t = SubSeq(all, 1, n)
  OBVIOUS
<1>4. n \in 0..Len(all) /\ TrimEnd(all) = t
  BY <1>1, <1>2, <1>3, TrimEndIs DEF EndsAt
<1>5. t \in Seq(Letters(g)) /\ Len(t) = n
  BY <1>1, <1>3, <1>4
<1>6. ASSUME NEW k \in n..Len(all)
      PROVE  TrimEnd(SubSeq(all, 1, k)) = t
  <2>1. PICK s : s = SubSeq(all, 1, k)
    OBVIOUS
  <2>2. IsText(s) /\ EndsAt(s, n) /\ SubSeq(s, 1, n) = t
    BY <1>1, <1>2, <1>3, <1>6, <2>1, BeginningEnds
  <2> QED BY <2>1, <2>2, TrimEndIs
<1>7. n \in n..Len(all)
  BY <1>1, <1>4
<1> QED BY <1>3, <1>4, <1>5, <1>6, <1>7

LEMMA BeginningIs ==
    ASSUME NEW S, NEW t \in Seq(S), NEW k \in 0..Len(t)
    PROVE  SubSeq(t, 1, k) \in Seq(S) /\ Len(SubSeq(t, 1, k)) = k
  OBVIOUS

(* A stream sends a beginning of what was generated; if it succeeds, that   *)
(* is the text or the text with white space after it, and the answer is the *)
(* text, marked or not.                                                     *)
LEMMA StreamIs ==
    ASSUME NEW g, NEW out \in parse_openai_stream(g)
    PROVE  /\ Prose(out.sent)
           /\ out.ok => out.text \in Marked(TrimEnd(out.sent))
<1>1. PICK body \in Bodies :
        LET all == TrimStart(Chars(g, body))
        IN  out \in Streams(all, TrimEnd(all), IF Len(all) > Hold THEN Len(all) - Hold ELSE 0)
  BY Zenon DEF parse_openai_stream
<1>2. PICK all : all = TrimStart(Chars(g, body))
  OBVIOUS
<1>3. all \in Seq(Letters(g))
  BY <1>2, BodiesAre, TrimStartIs
<1>4. PICK text : text = TrimEnd(all)
  OBVIOUS
<1>5. PICK safe : safe = IF Len(all) > Hold THEN Len(all) - Hold ELSE 0
  OBVIOUS
<1>6. Len(all) \in Nat /\ safe \in 0..Len(all)
  BY <1>3, <1>5, ExecutionAssumption
<1>7. out \in Streams(all, text, safe)
  BY <1>1, <1>2, <1>4, <1>5
<1>8. PICK k \in 0..safe :
        \/ out = Outcome(FALSE, <<>>, SubSeq(all, 1, k))
        \/ \E answer \in Marked(text) :
              out = Outcome(TRUE, answer, IF Len(text) > k THEN text ELSE SubSeq(all, 1, k))
  BY <1>7 DEF Streams
<1>9. k \in 0..Len(all)
  BY <1>6, <1>8
<1>10. PICK begun : begun = SubSeq(all, 1, k)
  OBVIOUS
<1>11. Prose(begun)
  BY <1>3, <1>9, <1>10, BeginningIs, LettersAreProse
<1>12. /\ Len(text) \in 0..Len(all) /\ Prose(text) /\ TrimEnd(text) = text
       /\ Len(text) <= k => TrimEnd(begun) = text
  <2>1. Len(text) \in 0..Len(all) /\ text \in Seq(Letters(g)) /\ TrimEnd(text) = text
        /\ \A i \in Len(text)..Len(all) : TrimEnd(SubSeq(all, 1, i)) = text
    BY <1>3, <1>4, TextIs
  <2>2. Len(text) <= k => k \in Len(text)..Len(all)
    BY <1>9, <2>1
  <2> QED BY <1>10, <2>1, <2>2, LettersAreProse
<1>13. CASE out = Outcome(FALSE, <<>>, SubSeq(all, 1, k))
  BY <1>10, <1>11, <1>13 DEF Outcome
<1>14. ASSUME NEW answer \in Marked(text),
              out = Outcome(TRUE, answer, IF Len(text) > k THEN text ELSE SubSeq(all, 1, k))
       PROVE  Prose(out.sent) /\ out.text \in Marked(TrimEnd(out.sent))
  <2>1. CASE Len(text) > k
    <3>1. out.text \in Marked(text) /\ out.sent = text
      BY <1>14, <2>1 DEF Outcome
    <3> QED BY <1>12, <3>1
  <2>2. CASE ~(Len(text) > k)
    <3>1. out.text \in Marked(text) /\ out.sent = begun
      BY <1>10, <1>14, <2>2 DEF Outcome
    <3>2. Len(text) <= k
      BY <1>9, <1>12, <2>2
    <3> QED BY <1>11, <1>12, <3>1, <3>2
  <2> QED BY <2>1, <2>2
<1> QED BY <1>8, <1>13, <1>14

LEMMA AnswerIs ==
    ASSUME NEW g, NEW out, out = Lost \/ out \in Answer(g) \/ out \in MarkedAnswer(g)
    PROVE  out.sent = <<>> /\ (out = Lost => ~out.ok)
  BY DEF MarkedAnswer, Answer, Lost, Outcome

\* What the job may stream when a request has returned.
Fits(out) ==
    /\ Prose(out.sent)
    /\ out.ok /\ job.live /\ job.kind # "speakai" => out.text \in Marked(TrimEnd(out.sent))

LEMMA CompletionFits ==
    ASSUME NEW g, NEW out \in run_openai_compatible_completion(g, job) \cup {Lost}
    PROVE  Fits(out)
<1>1. \/ out = Lost
      \/ job.live /\ out \in parse_openai_stream(g)
      \/ (~job.live \/ job.kind = "speakai") /\ out \in MarkedAnswer(g)
  BY DEF run_openai_compatible_completion, run_vllm_completion
<1> QED BY <1>1, StreamIs, AnswerIs, NothingIsProse DEF Fits

-----------------------------------------------------------------------------
(* The stream and the answer.                                               *)

Remote == {"cluster", "vllm"}
Local  == {"mlx", "mlx command", "path", "llama", "llama command"}

\* The first n deltas of j are prose, and the others are its tool calls.
Split(j, n) ==
    /\ n \in 0..Len(j.deltas)
    /\ SubSeq(j.deltas, n + 1, Len(j.deltas)) = j.calls
    /\ \A i \in 1..n : ~IsTool(j.deltas[i])

\* What a completed job has streamed.
Told(j) ==
    /\ Prose(j.deltas) \/ \E n : Split(j, n)
    /\ j.live /\ j.kind # "speakai" /\ j.route \in Remote
          => \E n : Split(j, n) /\ j.content \in Marked(TrimEnd(SubSeq(j.deltas, 1, n)))

(* Only a job of SpeakAI, of which several answers may be tried, or one of  *)
(* the node's own runtimes has streamed something before an attempt; and    *)
(* the second attempt of a native turn adds to the prose of the first.      *)
Streamed(j) ==
    /\ IsText(j.deltas)
    /\ j.pc # "completed" => Prose(j.deltas) /\ j.calls = <<>>
    /\ j.pc = "claimed" => j.deltas = <<>> /\ j.prose = <<>>
    /\ j.pc \in Remote /\ j.kind # "speakai" => j.deltas = <<>> /\ j.prose = <<>>
    /\ j.pc = "native" => j.kind = "native" /\ j.deltas = <<>> /\ j.prose = <<>>
    /\ j.pc = "native again" => j.deltas = j.prose /\ TrimEnd(j.prose) = j.prose
    /\ j.pc \in Local => j.route \notin Remote
    /\ j.pc = "completed" => Told(j)

LEMMA JoinIs ==
    ASSUME NEW s, IsText(s), NEW t, IsText(t)
    PROVE  /\ IsText(s \o t) /\ Len(s \o t) = Len(s) + Len(t)
           /\ Len(s) \in Nat /\ Len(t) \in Nat
           /\ \A i \in 1..Len(s) : (s \o t)[i] = s[i]
           /\ \A i \in 1..Len(t) : (s \o t)[Len(s) + i] = t[i]
           /\ <<>> \o t = t /\ t \o <<>> = t
<1>1. PICK S, T : s \in Seq(S) /\ t \in Seq(T)
  BY DEF IsText
<1>2. s \in Seq(S \cup T) /\ t \in Seq(S \cup T)
  BY <1>1
<1>3. s \o t \in Seq(S \cup T)
  BY <1>2
<1>4. IsText(s \o t)
  BY <1>3 DEF IsText
<1> QED BY <1>2, <1>4

LEMMA JoinedProse ==
    ASSUME NEW s, Prose(s), NEW t, Prose(t)
    PROVE  Prose(s \o t)
<1>1. IsText(s) /\ IsText(t)
  BY DEF Prose
<1>2. PICK st : st = s \o t
  OBVIOUS
<1>3. PICK k, l : k = Len(s) /\ l = Len(t)
  OBVIOUS
<1>4. /\ IsText(st) /\ Len(st) = k + l /\ k \in Nat /\ l \in Nat
      /\ \A i \in 1..k : st[i] = s[i]
      /\ \A i \in 1..l : st[k + i] = t[i]
  BY <1>1, <1>2, <1>3, JoinIs
<1>5. ASSUME NEW i \in 1..(k + l) PROVE ~IsTool(st[i])
  <2>1. CASE i <= k
    <3>1. i \in 1..k
      BY <1>4, <1>5, <2>1
    <3> QED BY <1>3, <1>4, <3>1 DEF Prose
  <2>2. CASE i > k
    <3>1. i - k \in 1..l /\ k + (i - k) = i
      BY <1>4, <1>5, <2>2
    <3>2. st[i] = t[i - k]
      BY <1>4, <3>1
    <3> QED BY <1>3, <3>1, <3>2 DEF Prose
  <2> QED BY <1>4, <1>5, <2>1, <2>2
<1>6. Prose(st)
  BY <1>4, <1>5 DEF Prose
<1> QED BY <1>2, <1>6

\* A text that is all prose, without tool calls, is its own first part.
LEMMA ProseSplits ==
    ASSUME NEW j, Prose(j.deltas), j.calls = <<>>
    PROVE  /\ Split(j, Len(j.deltas))
           /\ SubSeq(j.deltas, 1, Len(j.deltas)) = j.deltas
<1>1. PICK d : d = j.deltas
  OBVIOUS
<1>2. Prose(d)
  BY <1>1
<1>3. PICK S : d \in Seq(S)
  BY <1>2 DEF Prose, IsText
<1>4. /\ Len(d) \in 0..Len(d) /\ SubSeq(d, Len(d) + 1, Len(d)) = <<>>
      /\ SubSeq(d, 1, Len(d)) = d
  BY <1>3
<1> QED BY <1>1, <1>2, <1>4 DEF Split, Prose

\* What a step leaves of the stream.
SameStream(j, k) ==
    /\ j.pc = k.pc /\ j.kind = k.kind /\ j.live = k.live /\ j.route = k.route
    /\ j.deltas = k.deltas /\ j.prose = k.prose /\ j.content = k.content /\ j.calls = k.calls

LEMMA StreamStays ==
    ASSUME NEW j, NEW k, SameStream(j, k), Streamed(k)
    PROVE  Streamed(j)
<1>1. \A n : Split(k, n) <=> Split(j, n)
  BY Zenon DEF Split, SameStream
<1>2. Told(k) => Told(j)
  BY <1>1, ZenonT(60) DEF Told, SameStream
<1> QED BY <1>2, ZenonT(60) DEF Streamed, SameStream

\* A job that has streamed prose, and has not completed.
LEMMA ProseIsStreamed ==
    ASSUME NEW j, Prose(j.deltas), j.calls = <<>>,
           \/ j.pc \in Remote /\ j.kind = "speakai"
           \/ j.pc = "failed"
           \/ j.pc \in Local /\ j.route \notin Remote
    PROVE  Streamed(j)
  BY DEF Streamed, Prose, Remote, Local

LEMMA JudgedStreams ==
    ASSUME DOMAIN job = JobFields, Streamed(job), NEW out, Prose(out.sent), out.ok,
           job.pc \in Remote => Fits(out), NEW by,
           NEW again, \/ job.pc \in Remote /\ again = job.pc
                      \/ job.pc \in Local /\ again \in Local,
           NEW j \in Judged(job, out, by, again)
    PROVE  Streamed(j)
<1>1. PICK d : d = job.deltas \o out.sent
  OBVIOUS
<1>2. PICK k : k = [job EXCEPT !.gens = @ + 1, !.deltas = @ \o out.sent, !.started = TRUE]
  OBVIOUS
<1>3. /\ DOMAIN k = JobFields /\ k.pc = job.pc /\ k.kind = job.kind /\ k.live = job.live
      /\ k.route = job.route /\ k.calls = job.calls /\ k.deltas = d
  BY <1>1, <1>2, ZenonT(60) DEF JobFields
<1>4. job.pc # "completed" /\ Prose(job.deltas) /\ job.calls = <<>> /\ Prose(out.sent)
  BY DEF Streamed, Remote, Local
<1>5. Prose(d)
  BY <1>1, <1>4, JoinedProse
<1>6. \/ j = [k EXCEPT !.pc = "completed", !.content = out.text, !.by = by]
      \/ j = [k EXCEPT !.pc = again, !.attempt = k.attempt + 1] /\ job.kind = "speakai"
      \/ j = Ends(k, "schema")
  <2>1. PICK a, b, c :
         /\ a = [k EXCEPT !.pc = "completed", !.content = out.text, !.by = by]
         /\ b = [k EXCEPT !.pc = again, !.attempt = k.attempt + 1]
         /\ c = Ends(k, "schema")
    OBVIOUS
  <2>2. Judged(job, out, by, again) =
           IF job.kind # "speakai" THEN {a}
           ELSE {a, IF job.attempt + 1 < Attempts THEN b ELSE c}
    BY <1>2, <2>1, Zenon DEF Judged
  <2>3. j = a \/ (j = b /\ job.kind = "speakai") \/ j = c
    BY <2>2
  <2> QED BY <2>1, <2>3, Zenon
<1>7. CASE j = [k EXCEPT !.pc = "completed", !.content = out.text, !.by = by]
  <2>1. /\ j.pc = "completed" /\ j.kind = job.kind /\ j.live = job.live
        /\ j.route = job.route /\ j.calls = <<>> /\ j.deltas = d /\ j.content = out.text
    BY <1>3, <1>4, <1>7, ZenonT(60) DEF JobFields
  <2>2. Prose(j.deltas)
    BY <1>5, <2>1
  <2>3. Split(j, Len(d)) /\ SubSeq(j.deltas, 1, Len(d)) = d
    BY <2>1, <2>2, ProseSplits
  <2>4. ASSUME j.live, j.kind # "speakai", j.route \in Remote
        PROVE  j.content \in Marked(TrimEnd(d))
    <3>1. job.pc \in Remote
      BY <2>1, <2>4 DEF Streamed
    <3>2. job.deltas = <<>>
      BY <2>1, <2>4, <3>1 DEF Streamed
    <3>3. d = out.sent
      BY <1>1, <1>4, <3>2, JoinIs DEF Prose
    <3> QED BY <2>1, <2>4, <3>1, <3>3 DEF Fits
  <2>5. Told(j)
    BY <2>2, <2>3, <2>4, Zenon DEF Told
  <2> QED BY <2>1, <2>2, <2>5 DEF Streamed, Prose, Remote, Local
<1>8. CASE j = [k EXCEPT !.pc = again, !.attempt = k.attempt + 1] /\ job.kind = "speakai"
  <2>1. /\ j.pc = again /\ j.kind = "speakai" /\ j.route = job.route
        /\ j.calls = <<>> /\ j.deltas = d
    BY <1>3, <1>4, <1>8, ZenonT(60) DEF JobFields
  <2>2. job.pc \in Local => job.route \notin Remote
    BY DEF Streamed
  <2> QED BY <1>5, <2>1, <2>2, ProseIsStreamed
<1>9. CASE j = Ends(k, "schema")
  <2>1. j.pc = "failed" /\ j.calls = <<>> /\ j.deltas = d
    BY <1>3, <1>4, <1>9, ZenonT(60) DEF JobFields, Ends
  <2> QED BY <1>5, <2>1, ProseIsStreamed
<1> QED BY <1>6, <1>7, <1>8, <1>9

LEMMA FailedStreams ==
    ASSUME DOMAIN job = JobFields, Streamed(job), job.pc \in Remote \cup Local,
           NEW out, Prose(out.sent),
           NEW next, next = "failed" \/ (job.pc \in Local /\ next \in Local)
    PROVE  Streamed(Failed(job, out, next))
<1>1. PICK d : d = job.deltas \o out.sent
  OBVIOUS
<1>2. PICK k : k = [job EXCEPT !.gens = @ + 1, !.deltas = @ \o out.sent]
  OBVIOUS
<1>3. /\ DOMAIN k = JobFields /\ k.route = job.route /\ k.calls = job.calls /\ k.deltas = d
  BY <1>1, <1>2, ZenonT(60) DEF JobFields
<1>4. Prose(job.deltas) /\ job.calls = <<>> /\ (job.pc \in Local => job.route \notin Remote)
  BY DEF Streamed, Remote, Local
<1>5. Prose(d)
  BY <1>1, <1>4, JoinedProse
<1>6. PICK j : j = Failed(job, out, next)
  OBVIOUS
<1>7. j = IF next = "failed" THEN Ends(k, "runtime") ELSE [k EXCEPT !.pc = next]
  BY <1>2, <1>6, Zenon DEF Failed
<1>8. /\ j.route = job.route /\ j.calls = <<>> /\ j.deltas = d
      /\ j.pc = next
  <2>1. CASE next = "failed"
    <3>1. j = Ends(k, "runtime")
      BY <1>7, <2>1
    <3> QED BY <1>3, <1>4, <2>1, <3>1, ZenonT(60) DEF JobFields, Ends
  <2>2. CASE next # "failed"
    <3>1. j = [k EXCEPT !.pc = next]
      BY <1>7, <2>2
    <3> QED BY <1>3, <1>4, <2>2, <3>1, ZenonT(60) DEF JobFields
  <2> QED BY <2>1, <2>2
<1>9. Streamed(j)
  BY <1>4, <1>5, <1>8, ProseIsStreamed
<1> QED BY <1>6, <1>9

(* A turn of native tools.                                                  *)

LEMMA JoinSplits ==
    ASSUME NEW s, IsText(s), NEW t, IsText(t)
    PROVE  /\ SubSeq(s \o t, 1, Len(s)) = s
           /\ SubSeq(s \o t, Len(s) + 1, Len(s \o t)) = t
<1>1. PICK A, B : s \in Seq(A) /\ t \in Seq(B)
  BY DEF IsText
<1>2. PICK S : s \in Seq(S) /\ t \in Seq(S)
  <2>1. s \in Seq(A \cup B) /\ t \in Seq(A \cup B)
    BY <1>1
  <2> QED BY <2>1
<1>3. PICK k, l : k = Len(s) /\ l = Len(t)
  OBVIOUS
<1>4. PICK st : st = s \o t
  OBVIOUS
<1>5. /\ k \in Nat /\ l \in Nat /\ st \in Seq(S) /\ Len(st) = k + l
      /\ \A i \in 1..k : st[i] = s[i]
      /\ \A i \in 1..l : st[k + i] = t[i]
  BY <1>2, <1>3, <1>4
<1>6. PICK a, b : a = SubSeq(st, 1, k) /\ b = SubSeq(st, k + 1, k + l)
  OBVIOUS
<1>7. a \in Seq(S) /\ Len(a) = k /\ \A i \in 1..k : a[i] = s[i]
  BY <1>5, <1>6
<1>8. a = s
  BY <1>2, <1>3, <1>7
<1>9. b \in Seq(S) /\ Len(b) = l /\ \A i \in 1..l : b[i] = st[k + i]
  BY <1>5, <1>6
<1>10. \A i \in 1..l : b[i] = t[i]
  BY <1>5, <1>9
<1>11. b = t
  BY <1>2, <1>3, <1>9, <1>10
<1> QED BY <1>3, <1>4, <1>5, <1>6, <1>8, <1>11

\* Prose, and something after it.
LEMMA FollowedIs ==
    ASSUME NEW p, Prose(p), NEW f, IsText(f)
    PROVE  /\ SubSeq(p \o f, 1, Len(p)) = p /\ SubSeq(p \o f, Len(p) + 1, Len(p \o f)) = f
           /\ IsText(p \o f) /\ Len(p) \in 0..Len(p \o f)
           /\ \A i \in 1..Len(p) : ~IsTool((p \o f)[i])
<1>1. IsText(p)
  BY DEF Prose
<1>2. SubSeq(p \o f, 1, Len(p)) = p /\ SubSeq(p \o f, Len(p) + 1, Len(p \o f)) = f
  BY <1>1, JoinSplits
<1>3. /\ IsText(p \o f) /\ Len(p \o f) = Len(p) + Len(f) /\ Len(p) \in Nat /\ Len(f) \in Nat
      /\ \A i \in 1..Len(p) : (p \o f)[i] = p[i]
  BY <1>1, JoinIs
<1>4. Len(p) \in 0..Len(p \o f)
  BY <1>3
<1> QED BY <1>2, <1>3, <1>4 DEF Prose

\* The prose of a turn has no white space at its end.
LEMMA TurnProse ==
    ASSUME NEW g, NEW t \in {Chars(g, b) : b \in {<<>>, <<"a">>, <<"a", "a">>}}
    PROVE  Prose(t) /\ TrimEnd(t) = t
<1>1. PICK b \in {<<>>, <<"a">>, <<"a", "a">>} : t = Chars(g, b)
  OBVIOUS
<1>2. b \in Seq({"a"})
  BY <1>1, SequencesAre, Zenon
<1>3. PICK n \in Nat : n = Len(b)
  BY <1>2
<1>4. b \in [1..n -> {"a"}] /\ DOMAIN b = 1..n
  BY <1>2, <1>3, SequencesAre
<1>5. \A i \in 1..n : b[i] = "a"
  BY <1>4, Zenon
<1>6. b \in [1..n -> {"a", "_"}]
  BY <1>4
<1>7. t \in Seq(Letters(g)) /\ t = [i \in 1..n |-> <<g, i, b[i]>>]
  BY <1>1, <1>4, <1>6, CharsAre DEF Chars
<1>8. Len(t) = n
  BY <1>7
<1>9. ASSUME n > 0 PROVE Solid(t[n])
  <2>1. n \in 1..n
    BY <1>9
  <2>2. t[n] = <<g, n, "a">>
    BY <1>5, <1>7, <2>1, Zenon
  <2> QED BY <2>2 DEF Solid
<1>10. EndsAt(t, n)
  BY <1>8, <1>9 DEF EndsAt
<1>11. IsText(t) /\ Prose(t)
  BY <1>7, LettersAreProse
<1>12. TrimEnd(t) = SubSeq(t, 1, n)
  BY <1>10, <1>11, TrimEndIs
<1>13. SubSeq(t, 1, n) = t
  BY <1>7, <1>8
<1> QED BY <1>11, <1>12, <1>13

LEMMA FragmentsAreText ==
    ASSUME NEW g, NEW calls \in Calls
    PROVE  IsText(ToolFragments(g, calls))
<1>1. calls \in Seq({"good", "incomplete", "oversized", "unnamed"})
  BY SequencesAre, Zenon DEF Calls
<1>2. PICK n \in Nat : n = Len(calls)
  BY <1>1
<1>3. DOMAIN calls = 1..n
  BY <1>1, <1>2
<1>4. PICK S : S = {g} \X Nat \X {"tool"}
  OBVIOUS
<1>5. \A i \in 1..n : i \in Nat
  BY SequencesAre, Zenon
<1>6. \A i \in Nat : <<g, i, "tool">> \in S
  BY <1>4
<1>7. [i \in 1..n |-> <<g, i, "tool">>] \in [1..n -> S]
  BY <1>5, <1>6, Zenon
<1>8. ToolFragments(g, calls) \in Seq(S)
  BY <1>3, <1>7, SequencesAre, Zenon DEF ToolFragments
<1> QED BY <1>8 DEF IsText

\* What the steps of a native turn have in common.
LEMMA NativeStreams ==
    ASSUME DOMAIN job = JobFields, Streamed(job), NEW retry \in BOOLEAN, NEW after,
           \/ job.pc = "native" /\ ~retry /\ after = "native again"
           \/ job.pc = "native again" /\ retry /\ after = "failed",
           NativeAttempt(retry, after)
    PROVE  Streamed(job)'
<1>1. PICK prose \in {Chars(job.gens + 1, b) : b \in {<<>>, <<"a">>, <<"a", "a">>}}, calls \in Calls,
           ended \in BOOLEAN, length \in BOOLEAN :
        LET sent    == IF job.live THEN StreamedProse(retry, prose) ELSE <<>>
            verdict == IF length /\ calls # <<>> THEN "rejected"
                       ELSE IF retry /\ calls = <<>> THEN "invalid"
                       ELSE validate_native_tool_message(calls)
            frags   == IF job.live /\ ended THEN Releases(verdict, calls, job.gens + 1) ELSE <<>>
            seen    == [job EXCEPT !.gens = job.gens + 1, !.deltas = @ \o sent \o frags,
                                   !.prose = @ \o sent]
        IN  job' = IF ~(cluster.up /\ job.model \in cluster.serves)
                   THEN Ends(job, "runtime")
                   ELSE IF ~ended THEN Ends(seen, "runtime")
                   ELSE IF verdict = "valid"
                   THEN [seen EXCEPT !.pc = "completed", !.by = job.model,
                           !.content = IF job.live THEN seen.prose ELSE prose,
                           !.calls = ToolFragments(job.gens + 1, calls)]
                   ELSE IF verdict = "rejected" /\ after # "failed"
                   THEN [seen EXCEPT !.pc = after]
                   ELSE Ends(seen, "runtime")
  BY Zenon DEF NativeAttempt
<1> DEFINE sent    == IF job.live THEN StreamedProse(retry, prose) ELSE <<>>
           verdict == IF length /\ calls # <<>> THEN "rejected"
                      ELSE IF retry /\ calls = <<>> THEN "invalid"
                      ELSE validate_native_tool_message(calls)
           tooled  == ToolFragments(job.gens + 1, calls)
           frags   == IF job.live /\ ended THEN Releases(verdict, calls, job.gens + 1) ELSE <<>>
           seen    == [job EXCEPT !.gens = job.gens + 1, !.deltas = @ \o sent \o frags,
                                  !.prose = @ \o sent]
           content == IF job.live THEN seen.prose ELSE prose
           told    == job.prose \o sent
<1>2. job' = IF ~(cluster.up /\ job.model \in cluster.serves)
             THEN Ends(job, "runtime")
             ELSE IF ~ended THEN Ends(seen, "runtime")
             ELSE IF verdict = "valid"
             THEN [seen EXCEPT !.pc = "completed", !.by = job.model, !.content = content,
                               !.calls = tooled]
             ELSE IF verdict = "rejected" /\ after # "failed"
             THEN [seen EXCEPT !.pc = after]
             ELSE Ends(seen, "runtime")
  BY <1>1, Zenon
<1>3. /\ job.live => sent = IF retry THEN <<>> ELSE prose
      /\ ~job.live => sent = <<>>
      /\ job.live /\ ended /\ verdict = "valid" => frags = tooled
      /\ ~job.live \/ ~ended \/ verdict # "valid" => frags = <<>>
  BY Zenon DEF StreamedProse, Releases
<1> HIDE DEF sent, verdict, frags, tooled
<1>4. /\ DOMAIN seen = JobFields /\ seen.kind = job.kind /\ seen.live = job.live
      /\ seen.route = job.route /\ seen.calls = job.calls
      /\ seen.deltas = job.deltas \o sent \o frags /\ seen.prose = told
  BY ZenonT(60) DEF JobFields
<1>5. job.live => content = told
  BY <1>4
<1> HIDE DEF seen, content
\* What was streamed of the prose.
<1>6. /\ Prose(job.prose) /\ job.deltas = job.prose /\ job.calls = <<>>
      /\ TrimEnd(job.prose) = job.prose
      /\ job.pc = "native" => job.prose = <<>>
  BY NothingIsProse DEF Streamed
<1>7. Prose(told) /\ TrimEnd(told) = told /\ IsText(told)
  <2>1. CASE sent = <<>>
    <3>1. told = job.prose
      BY <1>6, <2>1, JoinIs, NothingIsProse DEF Prose
    <3> QED BY <1>6, <3>1 DEF Prose
  <2>2. CASE sent # <<>>
    <3>1. sent = prose /\ job.prose = <<>>
      BY <1>3, <1>6, <2>2
    <3>2. Prose(prose) /\ TrimEnd(prose) = prose
      BY TurnProse
    <3>3. told = prose
      BY <3>1, <3>2, JoinIs, NothingIsProse DEF Prose
    <3> QED BY <3>2, <3>3 DEF Prose
  <2> QED BY <2>1, <2>2
<1>8. seen.deltas = told \o frags
  BY <1>4, <1>6
<1>9. frags = <<>> => seen.deltas = told
  BY <1>7, <1>8, JoinIs, NothingIsProse
<1> HIDE DEF told
<1>10. ASSUME job' = Ends(job, "runtime")
       PROVE  Streamed(job)'
  <2>1. job'.pc = "failed" /\ job'.deltas = job.deltas /\ job'.calls = <<>>
    BY <1>6, <1>10, ZenonT(60) DEF JobFields, Ends
  <2> QED BY <1>6, <2>1 DEF Streamed, Prose, Remote, Local
<1>11. ASSUME job' = Ends(seen, "runtime"), frags = <<>>
       PROVE  Streamed(job)'
  <2>1. job'.pc = "failed" /\ job'.deltas = seen.deltas /\ job'.calls = <<>>
    BY <1>4, <1>6, <1>11, ZenonT(60) DEF JobFields, Ends
  <2> QED BY <1>7, <1>9, <1>11, <2>1 DEF Streamed, Remote, Local
<1>12. ASSUME job' = [seen EXCEPT !.pc = after], after # "failed", frags = <<>>
       PROVE  Streamed(job)'
  <2>1. /\ job'.pc = "native again" /\ job'.deltas = seen.deltas /\ job'.prose = seen.prose
        /\ job'.calls = <<>>
    BY <1>4, <1>6, <1>12, ZenonT(60) DEF JobFields
  <2> QED BY <1>4, <1>7, <1>9, <1>12, <2>1 DEF Streamed, Remote, Local
<1>13. ASSUME job' = [seen EXCEPT !.pc = "completed", !.by = job.model, !.content = content,
                                  !.calls = tooled],
              ended, verdict = "valid"
       PROVE  Streamed(job)'
  <2>1. /\ job'.pc = "completed" /\ job'.deltas = told \o frags /\ job'.content = content
        /\ job'.calls = tooled /\ job'.live = job.live
    BY <1>4, <1>8, <1>13, ZenonT(60) DEF JobFields
  <2>2. CASE job.live
    <3>1. job'.deltas = told \o tooled /\ job'.content = told
      BY <1>3, <1>5, <1>13, <2>1, <2>2
    <3>2. IsText(tooled) /\ Prose(told) /\ IsText(told)
      BY <1>7, FragmentsAreText DEF tooled
    <3>3. PICK p, f : p = told /\ f = tooled
      OBVIOUS
    <3>4. Prose(p) /\ IsText(f)
      BY <3>2, <3>3
    <3>5. PICK d : /\ d = p \o f
                   /\ SubSeq(d, 1, Len(p)) = p /\ SubSeq(d, Len(p) + 1, Len(d)) = f
                   /\ IsText(d) /\ Len(p) \in 0..Len(d)
                   /\ \A i \in 1..Len(p) : ~IsTool(d[i])
      BY <3>4, FollowedIs, Zenon
    <3>6. job'.deltas = d /\ job'.calls = f /\ job'.content = p /\ TrimEnd(p) = p
      BY <1>7, <2>1, <3>1, <3>3, <3>5
    <3>7. Split(job', Len(p)) /\ job'.content \in Marked(TrimEnd(SubSeq(job'.deltas, 1, Len(p))))
      BY <3>5, <3>6, Zenon DEF Split, Marked
    <3>8. Told(job')
      BY <3>7, Zenon DEF Told
    <3>9. IsText(job'.deltas)
      BY <3>5, <3>6
    <3> QED BY <2>1, <3>8, <3>9 DEF Streamed, Remote, Local
  <2>3. CASE ~job.live
    <3>1. job'.deltas = told
      BY <1>3, <1>8, <1>9, <2>1, <2>3
    <3>2. Told(job')
      BY <1>7, <2>1, <2>3, <3>1 DEF Told
    <3> QED BY <1>7, <2>1, <3>1, <3>2 DEF Streamed, Remote, Local
  <2> QED BY <2>2, <2>3
<1> QED BY <1>2, <1>3, <1>10, <1>11, <1>12, <1>13, Zenon

(* The steps of a job.                                                      *)

LEMMA WaitingStreams == Streamed(waiting)
<1>1. /\ waiting.deltas = <<>> /\ waiting.prose = <<>> /\ waiting.calls = <<>>
      /\ waiting.pc = "none"
  BY DEF waiting
<1> QED BY <1>1, NothingIsProse DEF Streamed, Remote, Local

LEMMA StaleStreams ==
    ASSUME DOMAIN job = JobFields, Streamed(job), Stale
    PROVE  Streamed(job)'
<1>1. SameStream(job', job)
  BY ZenonT(60) DEF Stale, SameStream, JobFields
<1>2. Streamed(job')
  BY <1>1, StreamStays
<1> QED BY <1>2 DEF Streamed

LEMMA ClaimStreams == Claims => Streamed(job)'
<1> SUFFICES ASSUME Claims PROVE Streamed(job)'
  OBVIOUS
<1>1. PICK r \in Requests :
        job' = [waiting EXCEPT !.pc = "claimed", !.asked = r.asked, !.kind = r.kind,
                               !.live = r.live, !.own = r.own,
                               !.model = resolve_job_model(r.asked),
                               !.checked = report.fresh,
                               !.offered = /\ r.asked \in report.models
                                           /\ r.kind = "native" => report.tools]
  BY DEF Claims
<1>2. /\ job'.pc = "claimed" /\ job'.deltas = <<>> /\ job'.prose = <<>> /\ job'.calls = <<>>
  <2>1. /\ waiting.deltas = <<>> /\ waiting.prose = <<>> /\ waiting.calls = <<>>
    BY DEF waiting
  <2> QED BY <1>1, <2>1, WaitingIs, ZenonT(60) DEF JobFields
<1> QED BY <1>2, NothingIsProse DEF Streamed, Remote, Local

LEMMA ExecuteStreams ==
    ASSUME DOMAIN job = JobFields, Streamed(job), ClusterInv, execute_request_with_cluster
    PROVE  Streamed(job)'
<1>1. /\ job.pc = "claimed" /\ job.deltas = <<>> /\ job.prose = <<>> /\ job.calls = <<>>
  BY DEF execute_request_with_cluster, Streamed
<1>2. PICK route \in IF job.own THEN {backend} ELSE {"llama", "mlx", "vllm"},
           m \in preferred_speakai_model_name(job.model, job.kind = "speakai") :
        job' = CASE adopted.some -> ClusterRequest(job)
                 [] ~adopted.some /\ route = "vllm" -> run_vllm_request(job)
                 [] OTHER -> [job EXCEPT !.pc = IF route = "mlx" THEN "mlx" ELSE "path",
                                         !.route = route, !.model = m]
  BY DEF execute_request_with_cluster
\* Nothing is streamed by the choice of a runtime.
<1>3. ASSUME /\ job'.deltas = <<>> /\ job'.prose = <<>> /\ job'.calls = <<>>
             /\ \/ job'.pc \in Remote \cup {"failed"}
                \/ job'.pc = "native" /\ job'.kind = "native"
                \/ job'.pc \in Local /\ job'.route \notin Remote
      PROVE  Streamed(job)'
  BY <1>3, NothingIsProse DEF Streamed, Remote, Local
<1>4. ASSUME NEW why, job' = Ends(job, why) PROVE Streamed(job)'
  <2>1. job'.pc = "failed" /\ job'.deltas = <<>> /\ job'.prose = <<>> /\ job'.calls = <<>>
    BY <1>1, <1>4, ZenonT(60) DEF JobFields, Ends
  <2> QED BY <1>3, <2>1
<1>5. CASE adopted.some
  <2>1. PICK model : model = IF job.model # none THEN job.model ELSE adopted.model
    OBVIOUS
  <2>2. PICK pc : pc = IF job.kind = "native" THEN "native" ELSE "cluster"
    OBVIOUS
  <2>3. job' = IF ~cluster.up \/ adopted.model = none THEN Ends(job, "unhealthy")
               ELSE IF job.model # none /\ job.model # adopted.model /\ job.model \notin adopted.models
               THEN Ends(job, "refused")
               ELSE IF job.kind = "native" /\ ~adopted.tools THEN Ends(job, "refused")
               ELSE [job EXCEPT !.pc = pc, !.route = "cluster", !.model = model]
    BY <1>2, <1>5, <2>1, <2>2, Zenon DEF ClusterRequest
  <2>4. CASE job' = [job EXCEPT !.pc = pc, !.route = "cluster", !.model = model]
    <3>1. /\ job'.pc = pc /\ job'.kind = job.kind
          /\ job'.deltas = <<>> /\ job'.prose = <<>> /\ job'.calls = <<>>
      BY <1>1, <2>4, ZenonT(60) DEF JobFields
    <3> QED BY <1>3, <2>2, <3>1 DEF Remote
  <2> QED BY <1>4, <2>3, <2>4, Zenon
<1>6. CASE ~adopted.some /\ route = "vllm"
  <2>1. \/ \E why : job' = Ends(job, why)
        \/ job' = [job EXCEPT !.pc = "vllm", !.route = "vllm"]
    BY <1>2, <1>6, Zenon DEF run_vllm_request
  <2>2. CASE job' = [job EXCEPT !.pc = "vllm", !.route = "vllm"]
    <3>1. /\ job'.pc = "vllm"
          /\ job'.deltas = <<>> /\ job'.prose = <<>> /\ job'.calls = <<>>
      BY <1>1, <2>2, ZenonT(60) DEF JobFields
    <3> QED BY <1>3, <3>1 DEF Remote
  <2> QED BY <1>4, <2>1, <2>2
<1>7. CASE ~adopted.some /\ route # "vllm"
  <2>1. PICK pc : pc = IF route = "mlx" THEN "mlx" ELSE "path"
    OBVIOUS
  <2>2. job' = [job EXCEPT !.pc = pc, !.route = route, !.model = m]
    <3>1. job' = [job EXCEPT !.pc = IF route = "mlx" THEN "mlx" ELSE "path",
                             !.route = route, !.model = m]
      BY <1>2, <1>7, Zenon
    <3> QED BY <2>1, <3>1, Zenon
  <2>3. /\ job'.pc = pc /\ job'.route = route
        /\ job'.deltas = <<>> /\ job'.prose = <<>> /\ job'.calls = <<>>
    BY <1>1, <2>2, ZenonT(60) DEF JobFields
  <2>4. route \in {"llama", "mlx"}
    BY <1>2, <1>7 DEF ClusterInv
  <2> QED BY <1>3, <2>1, <2>3, <2>4 DEF Remote, Local
<1> QED BY <1>5, <1>6, <1>7

\* Another of the node's own runtimes.
LEMMA MoveStreams ==
    ASSUME DOMAIN job = JobFields, Streamed(job), job.pc \in Local, NEW pc \in Local,
           job' = [job EXCEPT !.pc = pc]
    PROVE  Streamed(job)'
<1>1. job'.pc = pc /\ job'.route = job.route /\ job'.deltas = job.deltas /\ job'.calls = job.calls
  BY ZenonT(60) DEF JobFields
<1>2. Prose(job.deltas) /\ job.calls = <<>> /\ job.route \notin Remote
  BY DEF Streamed, Local
<1>3. Streamed(job')
  BY <1>1, <1>2, ProseIsStreamed
<1> QED BY <1>3 DEF Streamed

LEMMA RemoteStreams ==
    ASSUME DOMAIN job = JobFields, Streamed(job), RemoteAttempt
    PROVE  Streamed(job)'
<1>1. job.pc \in Remote
  BY DEF RemoteAttempt, Remote
<1>2. PICK out \in run_openai_compatible_completion(job.gens + 1, job) \cup {Lost} :
        IF out.ok THEN job' \in Judged(job, out, job.model, job.pc)
        ELSE job' = Failed(job, out, "failed")
  BY Zenon DEF RemoteAttempt
<1>3. Fits(out)
  BY <1>2, CompletionFits
<1>4. Streamed(job')
  BY <1>1, <1>2, <1>3, JudgedStreams, FailedStreams DEF Fits
<1> QED BY <1>4 DEF Streamed

LEMMA MlxStreams ==
    ASSUME DOMAIN job = JobFields, Streamed(job), MlxWarm
    PROVE  Streamed(job)'
<1>1. job.pc \in Local /\ {"mlx", "mlx command"} \subseteq Local
  BY DEF MlxWarm, Local
<1>2. CASE job' = [job EXCEPT !.pc = "mlx command"]
  BY <1>1, <1>2, MoveStreams
<1>3. CASE ~ (job' = [job EXCEPT !.pc = "mlx command"])
  <2>1. PICK out \in run_openai_compatible_completion(job.gens + 1, job) :
          IF out.ok THEN job' \in Judged(job, out, job.model, "mlx")
          ELSE job' = Failed(job, out, "mlx command")
    BY <1>3, Zenon DEF MlxWarm
  <2>2. Fits(out)
    BY <2>1, CompletionFits
  <2>3. Streamed(job')
    BY <1>1, <2>1, <2>2, JudgedStreams, FailedStreams DEF Fits
  <2> QED BY <2>3 DEF Streamed
<1> QED BY <1>2, <1>3

\* An answer as a whole, of one of the node's own runtimes.
LEMMA AnswerStreams ==
    ASSUME DOMAIN job = JobFields, Streamed(job), job.pc \in Local, NEW again \in Local, NEW by,
           NEW next, next = "failed" \/ next \in Local,
           \/ \E out \in {Lost} \cup Answer(job.gens + 1) :
                 out.ok /\ job' \in Judged(job, out, by, again)
           \/ \E out \in {Lost} \cup Answer(job.gens + 1) : job' = Failed(job, out, next)
    PROVE  Streamed(job)'
<1>1. \A out \in {Lost} \cup Answer(job.gens + 1) : out.sent = <<>>
  BY AnswerIs
<1>2. CASE \E out \in {Lost} \cup Answer(job.gens + 1) :
              out.ok /\ job' \in Judged(job, out, by, again)
  <2>1. PICK out : out.sent = <<>> /\ out.ok /\ job' \in Judged(job, out, by, again)
    BY <1>1, <1>2
  <2>2. Prose(out.sent) /\ job.pc \notin Remote
    BY <2>1, NothingIsProse DEF Remote, Local
  <2>3. Streamed(job')
    BY <2>1, <2>2, JudgedStreams
  <2> QED BY <2>3 DEF Streamed
<1>3. CASE \E out \in {Lost} \cup Answer(job.gens + 1) : job' = Failed(job, out, next)
  <2>1. PICK out : out.sent = <<>> /\ job' = Failed(job, out, next)
    BY <1>1, <1>3
  <2>2. Streamed(job')
    BY <2>1, NothingIsProse, FailedStreams
  <2> QED BY <2>2 DEF Streamed
<1> QED BY <1>2, <1>3

LEMMA MlxCommandStreams ==
    ASSUME DOMAIN job = JobFields, Streamed(job), run_mlx_command
    PROVE  Streamed(job)'
<1>1. job.pc \in Local /\ {"mlx", "path"} \subseteq Local
  BY DEF run_mlx_command, Local
<1>2. PICK next \in {"failed", "path"} : next = IF job.started THEN "failed" ELSE "path"
  OBVIOUS
<1>3. \/ \E out \in {Lost} \cup Answer(job.gens + 1) :
            out.ok /\ job' \in Judged(job, out, job.model, "mlx")
      \/ \E out \in {Lost} \cup Answer(job.gens + 1) : job' = Failed(job, out, next)
  BY <1>2, Zenon DEF run_mlx_command
<1> QED BY <1>1, <1>3, AnswerStreams

LEMMA LlamaServerStreams ==
    ASSUME DOMAIN job = JobFields, Streamed(job), run_llama_server_completion
    PROVE  Streamed(job)'
<1>1. job.pc \in Local /\ {"llama", "llama command"} \subseteq Local
  BY DEF run_llama_server_completion, Local
<1>2. CASE job' = [job EXCEPT !.pc = "llama command"]
  BY <1>1, <1>2, MoveStreams
<1>3. CASE ~ (job' = [job EXCEPT !.pc = "llama command"])
  <2>1. \/ \E out \in {Lost} \cup Answer(job.gens + 1) :
              out.ok /\ job' \in Judged(job, out, server.model, "llama")
        \/ \E out \in {Lost} \cup Answer(job.gens + 1) : job' = Failed(job, out, "llama command")
    BY <1>3, Zenon DEF run_llama_server_completion
  <2> QED BY <1>1, <2>1, AnswerStreams
<1> QED BY <1>2, <1>3

LEMMA LlamaCommandStreams ==
    ASSUME DOMAIN job = JobFields, Streamed(job), run_llama_command
    PROVE  Streamed(job)'
<1>1. job.pc \in Local /\ "llama" \in Local
  BY DEF run_llama_command, Local
<1>2. \/ \E out \in {Lost} \cup Answer(job.gens + 1) :
            out.ok /\ job' \in Judged(job, out, job.path, "llama")
      \/ \E out \in {Lost} \cup Answer(job.gens + 1) : job' = Failed(job, out, "failed")
  BY Zenon DEF run_llama_command
<1> QED BY <1>1, <1>2, AnswerStreams

LEMMA ResolveStreams ==
    ASSUME DOMAIN job = JobFields, Streamed(job), LlamaResolves
    PROVE  Streamed(job)'
<1>1. job.pc \in Local /\ "llama" \in Local /\ "path" \in Local
  BY DEF LlamaResolves, Local
<1>2. Prose(job.deltas) /\ job.calls = <<>> /\ job.route \notin Remote
  BY <1>1 DEF Streamed, Local
<1>3. \/ \E f : job' = [job EXCEPT !.pc = "llama", !.path = f, !.attempt = 0]
      \/ \E why : job' = Ends(job, why)
  BY Zenon DEF LlamaResolves
<1>4. CASE \E f : job' = [job EXCEPT !.pc = "llama", !.path = f, !.attempt = 0]
  <2>1. PICK f : job' = [job EXCEPT !.pc = "llama", !.path = f, !.attempt = 0]
    BY <1>4
  <2>2. /\ job'.pc = "llama" /\ job'.route = job.route
        /\ job'.deltas = job.deltas /\ job'.calls = job.calls
    BY <2>1, ZenonT(60) DEF JobFields
  <2>3. Streamed(job')
    BY <1>1, <1>2, <2>2, ProseIsStreamed
  <2> QED BY <2>3 DEF Streamed
<1>5. CASE \E why : job' = Ends(job, why)
  <2>1. PICK why : job' = Ends(job, why)
    BY <1>5
  <2>2. job'.pc = "failed" /\ job'.deltas = job.deltas /\ job'.calls = job.calls
    BY <2>1, ZenonT(60) DEF JobFields, Ends
  <2>3. Streamed(job')
    BY <1>2, <2>2, ProseIsStreamed
  <2> QED BY <2>3 DEF Streamed
<1> QED BY <1>3, <1>4, <1>5

LEMMA NativeStepStreams ==
    ASSUME DOMAIN job = JobFields, Streamed(job), run_native_tool_attempts
    PROVE  Streamed(job)'
<1>1. \/ job.pc = "native" /\ NativeAttempt(FALSE, "native again")
      \/ job.pc = "native again" /\ NativeAttempt(TRUE, "failed")
  BY DEF run_native_tool_attempts
<1>2. CASE job.pc = "native" /\ NativeAttempt(FALSE, "native again")
  BY <1>2, NativeStreams
<1>3. CASE job.pc = "native again" /\ NativeAttempt(TRUE, "failed")
  BY <1>3, NativeStreams
<1> QED BY <1>1, <1>2, <1>3

LEMMA StreamStep == ServeInv /\ Streamed(job) /\ [Next]_vars => Streamed(job)'
<1> SUFFICES ASSUME ServeInv, Streamed(job), [Next]_vars PROVE Streamed(job)'
  OBVIOUS
<1>1. DOMAIN job = JobFields /\ ClusterInv
  BY JobIs DEF ServeInv
<1>2. CASE job' = job
  <2>1. Streamed(job')
    BY <1>2
  <2> QED BY <2>1 DEF Streamed
<1>3. CASE Stale
  BY <1>1, <1>3, StaleStreams
<1>4. CASE Surroundings
  <2>1. Stale \/ job' = job
    BY <1>4 DEF Surroundings, ServerStarts, ServerDies, ClusterChanges, run_cluster_use,
       run_cluster_forget, ToolUntrusted, ToolProbeStarts, ToolProbeEnds
  <2> QED BY <1>2, <1>3, <2>1
<1>5. CASE probe_worker_health
  BY <1>2, <1>5 DEF probe_worker_health
<1>6. CASE Reported
  <2>1. Streamed(job')
    BY <1>6, WaitingStreams DEF Reported
  <2> QED BY <2>1 DEF Streamed
<1>7. CASE Worker
  BY <1>1, <1>6, <1>7, ExecuteStreams, RemoteStreams, NativeStepStreams, MlxStreams,
     MlxCommandStreams, ResolveStreams, LlamaServerStreams, LlamaCommandStreams DEF Worker
<1>8. CASE UNCHANGED vars
  BY <1>2, <1>8 DEF vars
<1> QED BY <1>4, <1>5, <1>7, <1>8, ClaimStreams DEF Next

LEMMA StreamInvariant == Spec => []Streamed(job)
<1>1. Init => Streamed(job)
  BY WaitingStreams DEF Init
<1> QED BY <1>1, StreamStep, ReportIsKept, PTL DEF Spec

(* When a streamed job of the cluster or of vLLM completes, what was        *)
(* streamed is its answer, the text once and then its tool calls, whatever  *)
(* was held back, cut short or generated again; all that the answer may say *)
(* besides is that the text was cut off at the generation limit.            *)
THEOREM StreamIsTheAnswer == Spec => []StreamMatchesAnswer
<1>1. Streamed(job) => StreamMatchesAnswer
  BY DEF Streamed, Told, Split, StreamMatchesAnswer, Remote
<1> QED BY <1>1, StreamInvariant, PTL

(* No fragment of a tool call is streamed before the whole batch was found  *)
(* valid, and a job that fails or generates again has streamed none.        *)
THEOREM ToolsComeWhole == Spec => []ToolsReleasedWhole
<1>1. ASSUME Streamed(job), NEW i \in DOMAIN job.deltas, IsTool(job.deltas[i])
      PROVE  job.pc = "completed" /\ \E n \in 1..i : SubSeq(job.deltas, n, Len(job.deltas)) = job.calls
  <2>1. Len(job.deltas) \in Nat /\ i \in 1..Len(job.deltas) /\ IsText(job.deltas)
    <3>1. IsText(job.deltas)
      BY <1>1 DEF Streamed
    <3>2. PICK S, s : s = job.deltas /\ s \in Seq(S)
      BY <3>1 DEF IsText
    <3>3. Len(s) \in Nat /\ DOMAIN s = 1..Len(s)
      BY <3>2
    <3> QED BY <1>1, <3>1, <3>2, <3>3, Zenon
  <2>2. ~Prose(job.deltas)
    BY <1>1, <2>1 DEF Prose
  <2>3. job.pc = "completed" /\ Told(job)
    BY <1>1, <2>2 DEF Streamed
  <2>4. PICK n : Split(job, n)
    BY <2>2, <2>3 DEF Told
  <2>5. /\ n \in 0..Len(job.deltas)
        /\ \A k \in 1..n : ~IsTool(job.deltas[k])
        /\ SubSeq(job.deltas, n + 1, Len(job.deltas)) = job.calls
    BY <2>4 DEF Split
  <2>6. i > n
    BY <1>1, <2>1, <2>5
  <2>7. PICK m : m = n + 1
    OBVIOUS
  <2>8. m \in 1..i
    BY <2>1, <2>5, <2>6, <2>7
  <2>9. SubSeq(job.deltas, m, Len(job.deltas)) = job.calls
    BY <2>5, <2>7, Zenon
  <2> QED BY <2>3, <2>8, <2>9, Zenon
<1>2. Streamed(job) => ToolsReleasedWhole
  BY <1>1 DEF ToolsReleasedWhole
<1> QED BY <1>2, StreamInvariant, PTL
=============================================================================
