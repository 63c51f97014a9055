-------------------------------- MODULE Vitals --------------------------------
(***************************************************************************)
(* The observers that a capture installs in the page before its first      *)
(* script (WEB_VITALS_SETUP_JS and DOM_MUTATIONS_SETUP_JS of               *)
(* src/src/browser/mod.rs) and the roll-ups of what they collected.  The   *)
(* observers are callbacks of the page: their entries come in any order,   *)
(* and the result is read at whatever moment the capture gets to it, so    *)
(* what must agree must agree after every entry.                           *)
(*                                                                         *)
(* Durations are whole milliseconds.  The value of a layout shift is a     *)
(* whole number of units that its sources share equally.                   *)
(***************************************************************************)
EXTENDS Rollups

CONSTANTS
  MaxClsEntries,   \* MAX_CLS_ENTRIES
  MaxLongTasks,    \* MAX_LONGTASKS
  MaxLoaf,         \* MAX_LOAF
  ScriptsPerFrame, \* scripts kept of one long animation frame
  TopOffenders,    \* offenders listed per roll-up
  TopMutated,      \* names listed per table of mutations
  NameRank         \* the names of elements and attributes, as they compare

ASSUME CapsAssumption ==
  {MaxClsEntries, MaxLongTasks, MaxLoaf, ScriptsPerFrame, TopOffenders} \subseteq Nat
ASSUME NamesAssumption ==
  /\ TopMutated \in Nat
  /\ NameRank \in [DOMAIN NameRank -> Int]
  /\ \A n, m \in DOMAIN NameRank : NameRank[n] = NameRank[m] => n = m

VARIABLES
  vitals,    \* window.__web_vitals, without the frame counters
  fps,       \* its frame counters, and __wv_prev_frame_ts
  mutations  \* window.__dom_mutations

observers == <<vitals, fps, mutations>>

NoNode == "none"
Capped(s, x, cap) == IF Len(s) < cap THEN Append(s, x) ELSE s

InstallObservers ==
  /\ vitals = [lcp |-> 0, lcp_element |-> NoNode, cls |-> 0, cls_entries |-> << >>,
               tbt |-> 0, long_tasks |-> 0, long_task_entries |-> << >>,
               inp |-> 0, interaction_count |-> 0, loaf_entries |-> << >>]
  /\ fps = [frames |-> 0, jank |-> 0, longest |-> 0, first |-> 0, last |-> 0, prev |-> 0]
  /\ mutations = [added |-> 0, removed |-> 0, attr |-> 0, by_tag |-> Empty, by_attr |-> Empty]

-----------------------------------------------------------------------------
(* The callbacks.                                                          *)

(* A later candidate wins; one whose element is gone keeps the earlier     *)
(* element.                                                                *)
LargestPaint(e) ==
  /\ vitals' = IF e.start < vitals.lcp THEN vitals
               ELSE [vitals EXCEPT !.lcp = e.start,
                                   !.lcp_element = IF e.node = NoNode THEN @ ELSE e.node]
  /\ UNCHANGED <<fps, mutations>>

(* Shifts after an input do not count; a source without a node is dropped. *)
WithNode(sources) == RestrictValues(sources, LAMBDA s : s.node # NoNode)
Moved(e) == [value |-> e.value, sources |-> WithNode(e.sources)]
LayoutShift(e) ==
  /\ vitals' = IF e.recent THEN vitals
               ELSE [vitals EXCEPT !.cls = @ + e.value,
                                   !.cls_entries = Capped(@, Moved(e), MaxClsEntries)]
  /\ UNCHANGED <<fps, mutations>>

LongTask(e) ==
  /\ vitals' = [vitals EXCEPT !.tbt = @ + (IF e.duration > 50 THEN e.duration - 50 ELSE 0),
                              !.long_tasks = @ + 1,
                              !.long_task_entries = Capped(@, e, MaxLongTasks)]
  /\ UNCHANGED <<fps, mutations>>

Interaction(e) ==
  /\ vitals' = IF ~e.interaction THEN vitals
               ELSE [vitals EXCEPT !.interaction_count = @ + 1,
                                   !.inp = IF e.duration > @ THEN e.duration ELSE @]
  /\ UNCHANGED <<fps, mutations>>

(* Of a frame's scripts the first long ones are kept.                      *)
LongScripts(scripts) ==
  LET long == {i \in DOMAIN scripts : scripts[i].duration > 5}
  IN  Restrict(scripts, {i \in long : Cardinality({j \in long : j < i}) < ScriptsPerFrame})
Kept(e) == [blocking |-> e.blocking, scripts |-> LongScripts(e.scripts)]
LongFrame(e) ==
  /\ vitals' = [vitals EXCEPT !.loaf_entries = Capped(@, Kept(e), MaxLoaf)]
  /\ UNCHANGED <<fps, mutations>>

Janky(dt) == 3 * dt > 50    \* dt > 1000 / 60

MutFpsTick(ts) ==    \* mutant: the window starts at the end of the first frame
  /\ ts > fps.prev
  /\ LET dt == ts - fps.prev
     IN  fps' = IF fps.prev = 0 THEN [fps EXCEPT !.prev = ts]
                ELSE [frames |-> fps.frames + 1, jank |-> fps.jank + One(Janky(dt)),
                      longest |-> IF dt > fps.longest THEN dt ELSE fps.longest,
                      first |-> IF fps.first = 0 THEN ts ELSE fps.first,
                      last |-> ts, prev |-> ts]
  /\ UNCHANGED <<vitals, mutations>>

(* __wv_fps_tick: a frame runs from the previous tick to this one. *)
FpsTick(ts) ==
  /\ ts > fps.prev
  /\ LET dt == ts - fps.prev
     IN  fps' = IF fps.prev = 0 THEN [fps EXCEPT !.prev = ts]
                ELSE [frames |-> fps.frames + 1, jank |-> fps.jank + One(Janky(dt)),
                      longest |-> IF dt > fps.longest THEN dt ELSE fps.longest,
                      first |-> IF fps.first = 0 THEN fps.prev ELSE fps.first,
                      last |-> ts, prev |-> ts]
  /\ UNCHANGED <<vitals, mutations>>

Mutated(e) ==
  /\ mutations' = IF e.attribute
       THEN [mutations EXCEPT !.attr = @ + 1, !.by_attr = Plus(@, e.target, 1)]
       ELSE [mutations EXCEPT !.added = @ + e.added, !.removed = @ + e.removed,
                              !.by_tag = Plus(@, e.target, e.added + e.removed)]
  /\ UNCHANGED <<vitals, fps>>

Delivered(e) ==
  \/ e.type = "largest-contentful-paint" /\ LargestPaint(e)
  \/ e.type = "layout-shift" /\ LayoutShift(e)
  \/ e.type = "longtask" /\ LongTask(e)
  \/ e.type = "event" /\ Interaction(e)
  \/ e.type = "long-animation-frame" /\ LongFrame(e)
  \/ e.type = "frame" /\ FpsTick(e.ts)
  \/ e.type = "mutation" /\ Mutated(e)

-----------------------------------------------------------------------------
(* What the server makes of it.                                            *)

(* Rows grouped by key: what a group weighs, how many rows it has, its     *)
(* heaviest one; the heaviest group first.                                 *)
Keys(rows) == {rows[i].key : i \in DOMAIN rows}
Group(rows, key) == {i \in DOMAIN rows : rows[i].key = key}
Weights(rows) == [i \in DOMAIN rows |-> rows[i].weight]
Offender(rows, key) ==
  LET mine == Group(rows, key)
  IN  [key |-> key, total |-> SumFunctionOnSet(Weights(rows), mine),
       count |-> Cardinality(mine), worst |-> Max({0} \cup {rows[i].weight : i \in mine})]
Offenders(rows) == Ranked({Offender(rows, k) : k \in Keys(rows)},
                          LAMBDA a, b : a.total > b.total)

(* Where the items of a list's entries stand: which entry, which item.     *)
Places(lists) == UNION {{i} \X DOMAIN lists[i] : i \in DOMAIN lists}

(* aggregate_cls_sources: an entry's value is split over its sources. *)
ClsRows(entries) ==
  [p \in Places([i \in DOMAIN entries |-> entries[i].sources]) |->
     LET entry == entries[p[1]]
     IN  [key |-> entry.sources[p[2]].node,
          weight |-> entry.value \div Cardinality(DOMAIN entry.sources)]]
ClsTopSources(entries) == Offenders(ClsRows(entries))

(* aggregate_loaf *)
LoafRows(frames) ==
  [p \in Places([i \in DOMAIN frames |-> frames[i].scripts]) |->
     LET script == frames[p[1]].scripts[p[2]]
     IN  [key |-> script.url, weight |-> script.duration]]
LoafTopOffenders(frames) == FirstOf(Offenders(LoafRows(frames)), TopOffenders)

(* aggregate_long_tasks: the first attribution that names its container,   *)
(* else the task's own name.                                               *)
Label(a) == IF a.src # "" THEN a.src ELSE a.name
TaskSource(e) ==
  LET labels == SelectSeq([i \in DOMAIN e.attribution |-> Label(e.attribution[i])],
                          LAMBDA l : l # "")
  IN  CASE labels # << >> -> Head(labels)
        [] labels = << >> /\ e.name # "" -> e.name
        [] OTHER -> "(same-page)"
TaskRows(tasks) == [i \in DOMAIN tasks |-> [key |-> TaskSource(tasks[i]),
                                            weight |-> tasks[i].duration]]
LongTaskTopOffenders(tasks) == FirstOf(Offenders(TaskRows(tasks)), TopOffenders)

(* top_n_counts: the highest counters, and by name where they are alike. *)
TopCounts(f) ==
  FirstOf(InOrder({[name |-> k, count |-> f[k]] : k \in DOMAIN f},
                  LAMBDA a, b : \/ a.count > b.count
                                \/ a.count = b.count /\ NameRank[a.name] < NameRank[b.name]),
          TopMutated)

-----------------------------------------------------------------------------
(* The frame counters describe one window of frames that follow each other *)
(* without a gap: it is as long as its frames, no frame is longer than the *)
(* longest, and there is jank exactly when the longest frame is janky.     *)
FramesAgree ==
  LET window == fps.last - fps.first
  IN  /\ fps.longest <= window /\ window <= fps.frames * fps.longest
      /\ fps.jank <= fps.frames /\ 50 * fps.jank <= 3 * window
      /\ fps.jank > 0 <=> Janky(fps.longest)
      /\ fps.frames > 0 => fps.first > 0 /\ fps.last = fps.prev

(* The shares of the elements that moved add up to the shift they explain, *)
(* never to more than the page's, and to all of it unless a shift had no   *)
(* source left or came after the list was full.                            *)
ShiftsAgree ==
  LET explained == SumOver(ClsTopSources(vitals.cls_entries), LAMBDA s : s.total)
  IN  /\ explained <= vitals.cls
      /\ (/\ Len(vitals.cls_entries) < MaxClsEntries
          /\ \A i \in DOMAIN vitals.cls_entries : DOMAIN vitals.cls_entries[i].sources # {})
         => explained = vitals.cls

(* The offenders account for the tasks and scripts that were kept and not  *)
(* for more; the blocking time covers also the tasks that were not kept;   *)
(* no group that was cut off outweighs one that is listed.                 *)
OffendersAgree ==
  LET tasks == vitals.long_task_entries
      top == LongTaskTopOffenders(tasks)
      scripts == SumOver(vitals.loaf_entries, LAMBDA f : Cardinality(DOMAIN f.scripts))
      loaf == LoafTopOffenders(vitals.loaf_entries)
  IN  /\ Len(tasks) <= vitals.long_tasks
      /\ SumOver(top, LAMBDA o : o.total - 50 * o.count) <= vitals.tbt
      /\ \A i \in DOMAIN top : top[i].worst <= top[i].total
      /\ Len(top) < TopOffenders => SumOver(top, LAMBDA o : o.count) = Len(tasks)
      /\ Len(top) = TopOffenders => \A i \in DOMAIN tasks, j \in DOMAIN top :
           \/ \E k \in DOMAIN top : top[k].key = TaskSource(tasks[i])
           \/ tasks[i].duration <= top[j].total
      /\ Len(loaf) < TopOffenders => SumOver(loaf, LAMBDA o : o.count) = scripts
      /\ Len(vitals.loaf_entries) <= MaxLoaf

(* The tables of mutations count the records of their scalars: no more of  *)
(* them, and all of them unless a table was cut off.                       *)
MutationsAgree ==
  LET tags == TopCounts(mutations.by_tag)
      attrs == TopCounts(mutations.by_attr)
      counted(top) == SumOver(top, LAMBDA c : c.count)
  IN  /\ counted(tags) <= mutations.added + mutations.removed
      /\ Len(tags) < TopMutated => counted(tags) = mutations.added + mutations.removed
      /\ counted(attrs) <= mutations.attr
      /\ Len(attrs) < TopMutated => counted(attrs) = mutations.attr

(* Whenever the observers are read, in whatever order their entries came,  *)
(* the counters, the capped lists and the roll-ups agree with each other.  *)
VitalsAgree == FramesAgree /\ ShiftsAgree /\ OffendersAgree /\ MutationsAgree
=============================================================================
