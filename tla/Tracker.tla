------------------------------ MODULE Tracker ------------------------------
(***************************************************************************)
(* myScripts/tracker.py: the tracker that watches the location reports of  *)
(* UEs and puts those that head for a target tracking area (the ROI) on a  *)
(* notification list.  One report is handled to its end, the rewriting of  *)
(* tracker_state.json included, before the next one, so it is one step.    *)
(*                                                                         *)
(* Cells are abstract; what the geometry decides is left open: the ranking *)
(* of predict_next is one of the cases on_location tells apart.  There is  *)
(* always a ranking: the cells lie on two masts at least and --top-k is    *)
(* not 0.                                                                  *)
(***************************************************************************)
EXTENDS Integers, Sequences, FiniteSets, SequencesExt

CONSTANTS
    UEs,             \* SUPIs
    Cells, tac,      \* the cells of towers_tai.csv and the TAI of each
    neigh,           \* the adjacent cells, as a symmetric set of pairs
    arm, roi,        \* --arm-tai, --roi-tai
    horizon,         \* --horizon
    confirm,         \* --confirm
    alert_on_topk,   \* --alert-on-topk
    Patterns,        \* what --pattern may be; << >> for the predictor
    MaxPredicted,    \* bound: reports that change a cell, predictor mode
    MaxMatched       \* bound: reports that change a cell, pattern mode

TAIs == {tac[c] : c \in Cells}

ASSUME TopologyAssumption ==
    /\ roi \in TAIs /\ arm \in TAIs
    /\ \A p \in neigh : p \in Cells \X Cells /\ <<p[2], p[1]>> \in neigh
ASSUME OptionsAssumption ==
    /\ horizon \in Nat /\ confirm \in Nat \ {0} /\ alert_on_topk \in BOOLEAN
    /\ \A p \in Patterns : p = <<>> \/ (p \in Seq(TAIs) /\ Len(p) >= 2)
    /\ MaxPredicted \in Nat /\ MaxMatched \in Nat

NoCell == "no cell"

VARIABLES
    pattern,  \* args.pattern: chosen when the program starts
    stopped,  \* the loop of main has been left
    ue,       \* ue[u]: the dictionary of _st
    notify,   \* the notification list
    file,     \* tracker_state.json: what it says of each UE, and of notify
    rows,     \* the rows of alerts.csv the last report added: their levels
    reports,  \* how many reports have changed a cell
    asked     \* history: per UE, how its latest predictions named the ROI

vars == <<pattern, stopped, ue, notify, file, rows, reports, asked>>

\* _st: the state of a UE not heard of yet.
NewUE == [cur |-> NoCell, tais |-> <<>>, tracking |-> FALSE, level |-> "-",
          alerted |-> FALSE, entered |-> FALSE, last |-> FALSE, pos |-> 0, streak |-> 0]

\* _save: what of a UE goes into tracker_state.json.
Summary(s) == [level |-> s.level, tracking |-> s.tracking, entered |-> s.entered,
               cur |-> s.cur, tais |-> s.tais]
Saved(states, list) ==
    [ues |-> [u \in {v \in UEs : states[v] # NewUE} |-> Summary(states[u])], notify |-> list]

Init ==
    /\ pattern \in Patterns
    /\ stopped = FALSE
    /\ ue = [u \in UEs |-> NewUE]
    /\ notify = <<>>
    /\ file = [ues |-> [u \in {} |-> {}], notify |-> <<>>]
    /\ rows = <<>>
    /\ reports = 0
    /\ asked = [u \in UEs |-> [run |-> 0, all |-> 0]]

-----------------------------------------------------------------------------
\* Topology: TAIs are adjacent when two of their cells are.
tai_neigh(t) == {tac[p[2]] : p \in {q \in neigh : tac[q[1]] = t}} \ {t}

\* TAIs within n hops of t.
Within(t) ==
    LET near[n \in 0 .. Cardinality(TAIs)] ==
          IF n = 0 THEN {t} ELSE near[n - 1] \cup UNION {tai_neigh(x) : x \in near[n - 1]}
    IN  near

\* tai_hops(t, roi) is not None and at most the horizon.
NearROI(t) ==
    \E n \in 0 .. Cardinality(TAIs) : n <= horizon /\ roi \in Within(t)[n]

\* The UE is on c now; tais grows when the tracking area changed.
Moved(s, c) ==
    [s EXCEPT !.cur = c,
              !.tais = IF s.tais # <<>> /\ Last(s.tais) = tac[c] THEN @
                       ELSE Append(@, tac[c])]

\* Putting a UE on the list, once.
Notified(u, s) == IF s.alerted \/ Contains(notify, u) THEN notify ELSE Append(notify, u)

\* on_loss: the reason is noted; nothing reads it and nothing is saved.
OnLoss(u) ==
    /\ ~stopped /\ ~ue[u].last
    /\ ue' = [ue EXCEPT ![u].last = TRUE]
    /\ rows' = <<>>
    /\ UNCHANGED <<pattern, stopped, notify, file, reports, asked>>

\* A report that says where u is: the cell it is on already is ignored.
NewCell(u, c) ==
    /\ ~stopped
    /\ ue[u].cur # c
    /\ reports < IF pattern = <<>> THEN MaxPredicted ELSE MaxMatched
    /\ reports' = reports + 1
    /\ UNCHANGED <<pattern, stopped>>

-----------------------------------------------------------------------------
(* Predictor mode.                                                          *)

\* on_location in the ROI: said once, and nothing is saved.
ReachROI(u, c) ==
    /\ pattern = <<>> /\ NewCell(u, c)
    /\ tac[c] = roi
    /\ LET s == Moved(ue[u], c)
       IN  IF s.entered
           THEN ue' = [ue EXCEPT ![u] = s] /\ rows' = <<>>
           ELSE /\ ue' = [ue EXCEPT ![u] = [s EXCEPT !.entered = TRUE, !.level = "ENTERED"]]
                /\ rows' = <<"ENTERED">>
    /\ asked' = [asked EXCEPT ![u].run = 0]
    /\ UNCHANGED <<notify, file>>

\* on_location before the arm TAI was seen: the cell is noted, nothing saved.
NotTracked(u, c) ==
    /\ pattern = <<>> /\ NewCell(u, c)
    /\ tac[c] # roi /\ tac[c] # arm /\ ~ue[u].tracking
    /\ ue' = [ue EXCEPT ![u] = Moved(@, c)]
    /\ rows' = <<>>
    /\ asked' = [asked EXCEPT ![u].run = 0]
    /\ UNCHANGED <<notify, file>>

\* Entering the arm TAI.
Armed(s, c) == IF s.tracking THEN s ELSE [s EXCEPT !.tracking = TRUE, !.level = "TRACKING"]
ArmRow(u) == IF ue[u].tracking THEN <<>> ELSE <<"TRACKING">>

\* predict_next: where a cell of the ROI stands among the top k predictions.
\* The geometry that decides it is left open.
Places == {"first", "among", "absent"}

Tracked(u, c) == /\ pattern = <<>> /\ NewCell(u, c)
                 /\ tac[c] # roi
                 /\ ue[u].tracking \/ tac[c] = arm

\* Mutant of PredictROI: the UE is listed before it is confirmed.
MutPredictROI(u, c, place) ==
    /\ Tracked(u, c)
    /\ LET s == Armed(Moved(ue[u], c), c)
           n == s.streak + 1
           alert == (place = "first" \/ alert_on_topk) /\ n >= confirm
       IN  /\ ue' = [ue EXCEPT ![u] = [s EXCEPT !.streak = n,
                                                !.level = IF alert THEN "ALERT" ELSE "WATCH",
                                                !.alerted = TRUE]]
           /\ notify' = Notified(u, s)
           /\ rows' = Append(ArmRow(u), IF alert THEN "ALERT" ELSE "WATCH")
    /\ asked' = [asked EXCEPT ![u] = [run |-> @.run + 1, all |-> @.all + 1]]
    /\ file' = Saved(ue', notify')

\* The ROI is predicted.
PredictROI(u, c, place) ==
    /\ Tracked(u, c)
    /\ LET s == Armed(Moved(ue[u], c), c)
           n == s.streak + 1
           alert == (place = "first" \/ alert_on_topk) /\ n >= confirm
       IN  /\ ue' = [ue EXCEPT ![u] = [s EXCEPT !.streak = n,
                                                !.level = IF alert THEN "ALERT" ELSE "WATCH",
                                                !.alerted = @ \/ alert]]
           /\ notify' = IF alert THEN Notified(u, s) ELSE notify
           /\ rows' = Append(ArmRow(u), IF alert THEN "ALERT" ELSE "WATCH")
    /\ asked' = [asked EXCEPT ![u] = [run |-> @.run + 1, all |-> @.all + 1]]
    /\ file' = Saved(ue', notify')

\* The ROI is not predicted.  Near it the row says WATCH and the level never
\* sinks below; elsewhere the row says TRACKING and the count starts again.
PredictOther(u, c) ==
    /\ Tracked(u, c)
    /\ LET s == Armed(Moved(ue[u], c), c)
       IN  IF NearROI(tac[c])
           THEN /\ ue' = [ue EXCEPT ![u] = [s EXCEPT !.level =
                                              IF @ \in {"WATCH", "ALERT"} THEN @ ELSE "WATCH"]]
                /\ rows' = Append(ArmRow(u), "WATCH")
           ELSE /\ ue' = [ue EXCEPT ![u] = [s EXCEPT !.streak = 0]]
                /\ rows' = Append(ArmRow(u), "TRACKING")
    /\ asked' = [asked EXCEPT ![u].run = 0]
    /\ notify' = notify
    /\ file' = Saved(ue', notify)

-----------------------------------------------------------------------------
(* Pattern mode.                                                            *)

\* Mutant of advance_pattern: any TAI of the pattern counts.
MutAdvanceAnyOrder(pos, t) == IF Contains(pattern, t) THEN pos + 1 ELSE 0

\* Mutant of advance_pattern: a TAI that breaks the match is not itself
\* tried as the first of the pattern.
MutAdvancePattern(pos, t) ==
    IF pos < Len(pattern) /\ t = pattern[pos + 1] THEN pos + 1 ELSE 0

advance_pattern(pos, t) ==
    IF pos < Len(pattern) /\ t = pattern[pos + 1] THEN pos + 1
    ELSE IF t = pattern[1] THEN 1
    ELSE 0

\* on_location_pattern, the tracking area being the same: nothing is saved.
SameTAI(u, c) ==
    /\ pattern # <<>> /\ NewCell(u, c)
    /\ Moved(ue[u], c).tais = ue[u].tais
    /\ ue' = [ue EXCEPT ![u] = Moved(@, c)]
    /\ rows' = <<>>
    /\ UNCHANGED <<notify, file, asked>>

\* What the new position of the match does to a UE.
Matched(s, before) ==
    LET n == Len(pattern)
    IN  CASE s.pos >= n    -> [s EXCEPT !.entered = TRUE, !.level = "COMPLETE"]
          [] s.pos = n - 1 -> [s EXCEPT !.tracking = TRUE, !.level = "ALERT", !.alerted = TRUE]
          [] s.pos > 0 /\ s.pos < n - 1 -> [s EXCEPT !.tracking = TRUE, !.level = "TRACKING"]
          [] s.pos = 0 /\ before > 0    -> [s EXCEPT !.level = "CLEARED"]
          [] OTHER         -> s

\* The row of alerts.csv that goes with a level.
RowOf(level) == IF level = "COMPLETE" THEN "ENTERED" ELSE level

\* on_location_pattern in another tracking area.
OtherTAI(u, c) ==
    /\ pattern # <<>> /\ NewCell(u, c)
    /\ Moved(ue[u], c).tais # ue[u].tais
    /\ LET pos == advance_pattern(ue[u].pos, tac[c])
           s == [Moved(ue[u], c) EXCEPT !.pos = pos]
       IN  /\ ue' = [ue EXCEPT ![u] = Matched(s, ue[u].pos)]
           /\ notify' = IF pos = Len(pattern) - 1 THEN Notified(u, s) ELSE notify
           /\ rows' = IF pos > 0 \/ ue[u].pos > 0 THEN <<RowOf(ue'[u].level)>> ELSE <<>>
    /\ file' = Saved(ue', notify')
    /\ UNCHANGED asked

-----------------------------------------------------------------------------
Predictor(u, c) == \/ ReachROI(u, c) \/ NotTracked(u, c)
                   \/ PredictOther(u, c)
                   \/ \E place \in Places \ {"absent"} : PredictROI(u, c, place)

Pattern(u, c) == SameTAI(u, c) \/ OtherTAI(u, c)

\* main's finally: however the loop ends, the state is saved once more.
Stop ==
    /\ ~stopped
    /\ stopped' = TRUE
    /\ rows' = <<>>
    /\ file' = Saved(ue, notify)
    /\ UNCHANGED <<pattern, ue, notify, reports, asked>>

Next == \/ \E u \in UEs : OnLoss(u) \/ \E c \in Cells : Predictor(u, c) \/ Pattern(u, c)
        \/ Stop

Spec == Init /\ [][Next]_vars

-----------------------------------------------------------------------------
TypeOK ==
    /\ \A u \in UEs :
         /\ ue[u].cur \in Cells \cup {NoCell}
         /\ ue[u].level \in {"-", "TRACKING", "WATCH", "ALERT", "ENTERED", "COMPLETE", "CLEARED"}
         /\ ue[u].pos \in 0 .. Len(pattern)
    /\ notify \in Seq(UEs)

\* A UE is listed only after it was in the arm TAI and after the ROI was
\* predicted at least --confirm times.
ListedAfterConfirm == pattern = <<>> =>
    \A u \in UEs : Contains(notify, u) =>
      /\ Contains(ue[u].tais, arm)
      /\ asked[u].all >= confirm

\* --confirm: "require the ROI to be predicted on this many consecutive cell
\* changes before notifying" (tracker.py:510): whoever is put on the list has
\* had the ROI predicted on its last `confirm' cell changes.
ListedAfterConsecutive ==
    [][\A u \in UEs : Contains(notify', u) /\ ~Contains(notify, u)
                        => asked'[u].run >= confirm]_vars

\* "current per-UE state, rewritten on each change" (tracker.py:26): what
\* tracker_state.json says of a UE that has reached a level is what the tracker
\* has of it, and so is the notification list.
StateFileIsCurrent ==
    /\ file.notify = notify
    /\ \A u \in UEs : ue[u].level # "-" =>
         u \in DOMAIN file.ues /\ file.ues[u] = Summary(ue[u])

\* The TAIs u went through end with the first k of the pattern.
EndsWith(path, k) ==
    k <= Len(path) /\ \A i \in 1 .. k : path[Len(path) - k + i] = pattern[i]

\* The position of the match is the longest beginning of the pattern that the
\* UE's path ends with, though it is kept by one number and reset on a break.
PositionExact == pattern # <<>> =>
    \A u \in UEs : LET k == ue[u].pos
                   IN  /\ EndsWith(ue[u].tais, k)
                       /\ \A j \in k + 1 .. Len(pattern) : ~EndsWith(ue[u].tais, j)

\* The list holds exactly the UEs whose path has, somewhere, all but the last
\* TAI of the pattern in order; a UE on the way back is not on it.
ListedIffMatched == pattern # <<>> =>
    \A u \in UEs : Contains(notify, u) <=>
      \E i \in 1 .. Len(ue[u].tais) :
        EndsWith(SubSeq(ue[u].tais, 1, i), Len(pattern) - 1)
=============================================================================
