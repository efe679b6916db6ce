--------------------------- MODULE TrackerProofs ---------------------------
(***************************************************************************)
(* Proofs about Tracker, for any UEs, topology, options and number of      *)
(* reports: whom the tracker lists and when, in both modes, and what       *)
(* tracker_state.json says of it.                                          *)
(***************************************************************************)
EXTENDS Tracker, TLAPS

Levels == {"-", "TRACKING", "WATCH", "ALERT", "ENTERED", "COMPLETE", "CLEARED"}
UEStates == [cur : Cells \cup {NoCell}, tais : Seq(TAIs), tracking : BOOLEAN, level : Levels,
             alerted : BOOLEAN, entered : BOOLEAN, last : BOOLEAN, pos : Nat, streak : Nat]

TrackType ==
    /\ pattern \in Patterns
    /\ stopped \in BOOLEAN
    /\ ue \in [UEs -> UEStates]
    /\ notify \in Seq(UEs)
    /\ asked \in [UEs -> [run : Nat, all : Nat]]

-----------------------------------------------------------------------------
(* Facts about the operators                                                *)

\* Appending adds the element and nothing else to what a sequence contains.
LEMMA ContainsAppend ==
    ASSUME NEW S, NEW q \in Seq(S), NEW x \in S
    PROVE  /\ Append(q, x) \in Seq(S)
           /\ \A y : Contains(Append(q, x), y) <=> (Contains(q, y) \/ y = x)
<1>1. /\ Append(q, x) \in Seq(S) /\ Len(Append(q, x)) = Len(q) + 1
      /\ Append(q, x)[Len(q) + 1] = x
      /\ \A i \in 1 .. Len(q) : Append(q, x)[i] = q[i]
      /\ Len(q) \in Nat
  OBVIOUS
<1>2. ASSUME NEW y, Contains(Append(q, x), y)  PROVE Contains(q, y) \/ y = x
  BY <1>1, <1>2 DEF Contains
<1>3. ASSUME NEW y, Contains(q, y) \/ y = x  PROVE Contains(Append(q, x), y)
  BY <1>1, <1>3 DEF Contains
<1> QED BY <1>1, <1>2, <1>3

\* A UE not heard of yet.
LEMMA NewUEType ==
    /\ NewUE \in UEStates /\ NewUE.level = "-" /\ NewUE.tais = <<>> /\ NewUE.pos = 0
    /\ NewUE.streak = 0 /\ NewUE.tracking = FALSE /\ NewUE.alerted = FALSE
  BY DEF NewUE, UEStates, Levels

\* Moved: only the cell and the list of TAIs change, and the list then has
\* the TAI the UE is in.
LEMMA MovedFacts ==
    ASSUME NEW s \in UEStates, NEW c \in Cells
    PROVE  /\ Moved(s, c) \in UEStates
           /\ Moved(s, c).level = s.level /\ Moved(s, c).tracking = s.tracking
           /\ Moved(s, c).alerted = s.alerted /\ Moved(s, c).pos = s.pos
           /\ Moved(s, c).streak = s.streak
           /\ Moved(s, c).tais = s.tais \/ Moved(s, c).tais = Append(s.tais, tac[c])
           /\ Contains(Moved(s, c).tais, tac[c])
           /\ \A x : Contains(s.tais, x) => Contains(Moved(s, c).tais, x)
<1>1. tac[c] \in TAIs /\ s.tais \in Seq(TAIs)
  BY DEF TAIs, UEStates
<1>2. PICK t : t = IF s.tais # <<>> /\ Last(s.tais) = tac[c] THEN s.tais
                   ELSE Append(s.tais, tac[c])
  OBVIOUS
<1>3. Moved(s, c) = [s EXCEPT !.cur = c, !.tais = t]
  BY <1>2 DEF Moved
<1>4. t \in Seq(TAIs)
  BY <1>1, <1>2
<1>5. /\ Moved(s, c) \in UEStates /\ Moved(s, c).tais = t
      /\ Moved(s, c).level = s.level /\ Moved(s, c).tracking = s.tracking
      /\ Moved(s, c).alerted = s.alerted /\ Moved(s, c).pos = s.pos
      /\ Moved(s, c).streak = s.streak
  BY <1>3, <1>4 DEF UEStates
<1>6. Contains(t, tac[c]) /\ \A x : Contains(s.tais, x) => Contains(t, x)
  <2>1. CASE s.tais # <<>> /\ Last(s.tais) = tac[c]
    BY <1>1, <1>2, <2>1 DEF Contains, Last
  <2>2. CASE ~(s.tais # <<>> /\ Last(s.tais) = tac[c])
    BY <1>1, <1>2, <2>2, ContainsAppend
  <2> QED BY <2>1, <2>2
<1> QED BY <1>2, <1>5, <1>6

\* Armed: only the tracking and the level change.
LEMMA ArmedFacts ==
    ASSUME NEW s \in UEStates, NEW c
    PROVE  /\ Armed(s, c) \in UEStates /\ Armed(s, c).tracking = TRUE
           /\ Armed(s, c).tais = s.tais /\ Armed(s, c).alerted = s.alerted
           /\ Armed(s, c).pos = s.pos /\ Armed(s, c).streak = s.streak
  BY DEF Armed, UEStates, Levels

\* Notified: u is added if it is not there.
LEMMA NotifiedFacts ==
    ASSUME TrackType, NEW u \in UEs, NEW s \in UEStates
    PROVE  Notified(u, s) = notify \/ Notified(u, s) = Append(notify, u)
  BY DEF Notified

-----------------------------------------------------------------------------
(* The predictor                                                            *)

\* What ListedAfterConfirm needs to be inductive: a UE is tracked only if it
\* was in the arm TAI, and the count of --confirm is never more than what was
\* predicted.
ConfirmInv ==
    pattern = <<>> =>
      \A u \in UEs :
        /\ ue[u].tracking => Contains(ue[u].tais, arm)
        /\ ue[u].streak <= asked[u].all
        /\ Contains(notify, u) => Contains(ue[u].tais, arm) /\ asked[u].all >= confirm

\* A report about u: the other UEs keep what they have.
LEMMA ReportStep ==
    ASSUME TrackType, ConfirmInv, NEW u \in UEs, UNCHANGED <<pattern, stopped>>,
           NEW s \in UEStates, ue' = [ue EXCEPT ![u] = s],
           NEW a \in [run : Nat, all : Nat], asked' = [asked EXCEPT ![u] = a],
           asked[u].all <= a.all,
           notify' \in {notify, Append(notify, u)},
           pattern = <<>> =>
             /\ s.streak <= a.all
             /\ s.tracking => Contains(s.tais, arm)
             /\ \A x : Contains(ue[u].tais, x) => Contains(s.tais, x)
             /\ notify' # notify => Contains(s.tais, arm) /\ a.all >= confirm
    PROVE  TrackType' /\ ConfirmInv'
<1> USE DEF TrackType
<1>1. Append(notify, u) \in Seq(UEs) /\ \A y : Contains(Append(notify, u), y) <=> (Contains(notify, y) \/ y = u)
  BY ContainsAppend
<1>2. TrackType'
  BY <1>1
<1>3. ConfirmInv'
  <2>1. SUFFICES ASSUME pattern = <<>>, NEW v \in UEs
                 PROVE  /\ ue'[v].tracking => Contains(ue'[v].tais, arm)
                        /\ ue'[v].streak <= asked'[v].all
                        /\ Contains(notify', v) => Contains(ue'[v].tais, arm) /\ asked'[v].all >= confirm
    BY DEF ConfirmInv
  <2>2. /\ ue[v].tracking => Contains(ue[v].tais, arm)
        /\ ue[v].streak <= asked[v].all
        /\ Contains(notify, v) => Contains(ue[v].tais, arm) /\ asked[v].all >= confirm
    BY <2>1 DEF ConfirmInv
  <2>3. CASE v # u
    <3>1. ue'[v] = ue[v] /\ asked'[v] = asked[v]
      BY <2>3
    <3>2. Contains(notify', v) => Contains(notify, v)
      BY <1>1, <2>3
    <3> QED BY <2>2, <3>1, <3>2
  <2>4. CASE v = u
    <3>1. ue'[v] = s /\ asked'[v] = a
      BY <2>4
    <3>2. asked[v] \in [run : Nat, all : Nat] /\ confirm \in Nat
      BY OptionsAssumption
    <3>3. asked[v].all \in Nat /\ a.all \in Nat
      BY <3>2
    <3>4. ASSUME Contains(notify', v)  PROVE Contains(s.tais, arm) /\ a.all >= confirm
      <4>1. CASE notify' # notify
        BY <2>1, <4>1
      <4>2. CASE notify' = notify
        BY <2>1, <2>2, <2>4, <3>2, <3>3, <3>4, <4>2
      <4> QED BY <4>1, <4>2
    <3> QED BY <2>1, <2>4, <3>1, <3>4
  <2> QED BY <2>3, <2>4
<1> QED BY <1>2, <1>3

\* The ROI is predicted: u is listed only with --confirm predictions.
LEMMA PredictROIStep ==
    ASSUME TrackType, ConfirmInv, NEW u \in UEs, NEW c \in Cells, NEW place,
           PredictROI(u, c, place)
    PROVE  TrackType' /\ ConfirmInv'
<1> USE DEF TrackType
<1>1. PICK s : s = Armed(Moved(ue[u], c), c)
  OBVIOUS
<1>2. PICK n : n = s.streak + 1
  OBVIOUS
<1>3. PICK alert \in BOOLEAN : alert = ((place = "first" \/ alert_on_topk) /\ n >= confirm)
  OBVIOUS
<1>4. PICK z : z = [s EXCEPT !.streak = n, !.level = IF alert THEN "ALERT" ELSE "WATCH",
                             !.alerted = @ \/ alert]
  OBVIOUS
<1>5. PICK a : a = [run |-> asked[u].run + 1, all |-> asked[u].all + 1]
  OBVIOUS
<1>6. /\ pattern = <<>> /\ UNCHANGED <<pattern, stopped>>
      /\ ue[u].tracking \/ tac[c] = arm
      /\ ue' = [ue EXCEPT ![u] = z]
      /\ notify' = IF alert THEN Notified(u, s) ELSE notify
      /\ asked' = [asked EXCEPT ![u] = a]
  BY <1>1, <1>2, <1>3, <1>4, <1>5 DEF PredictROI, Tracked, NewCell
<1>7. /\ Moved(ue[u], c) \in UEStates
      /\ Moved(ue[u], c).streak = ue[u].streak
      /\ Contains(Moved(ue[u], c).tais, tac[c])
      /\ \A x : Contains(ue[u].tais, x) => Contains(Moved(ue[u], c).tais, x)
  BY MovedFacts
<1>8. /\ s \in UEStates /\ s.tais = Moved(ue[u], c).tais /\ s.streak = ue[u].streak
  BY <1>1, <1>7, ArmedFacts
<1>9. n \in Nat /\ s.streak \in Nat /\ n = ue[u].streak + 1 /\ s.alerted \in BOOLEAN
  BY <1>2, <1>8 DEF UEStates
<1>10. z \in UEStates /\ z.streak = n /\ z.tais = s.tais
  <2>1. (s.alerted \/ alert) \in BOOLEAN /\ (IF alert THEN "ALERT" ELSE "WATCH") \in Levels
    BY <1>9 DEF Levels
  <2> QED BY <1>4, <1>8, <1>9, <2>1 DEF UEStates
<1>11. /\ a \in [run : Nat, all : Nat] /\ asked[u].all \in Nat /\ a.all = asked[u].all + 1
  <2>1. asked[u] \in [run : Nat, all : Nat]
    OBVIOUS
  <2>2. asked[u].run \in Nat /\ asked[u].all \in Nat
    BY <2>1
  <2> QED BY <1>5, <2>2
<1>12. ue[u].streak <= asked[u].all /\ (ue[u].tracking => Contains(ue[u].tais, arm))
  BY <1>6 DEF ConfirmInv
<1>13. Contains(z.tais, arm) /\ \A x : Contains(ue[u].tais, x) => Contains(z.tais, x)
  BY <1>6, <1>7, <1>8, <1>10, <1>12
<1>14. n <= a.all
  BY <1>8, <1>9, <1>11, <1>12
<1>15. notify' \in {notify, Append(notify, u)}
  BY <1>6, <1>8, NotifiedFacts
<1>16. notify' # notify => a.all >= confirm
  <2>1. notify' # notify => alert
    BY <1>6
  <2>2. alert => n >= confirm
    BY <1>3
  <2>3. confirm \in Nat /\ a.all \in Nat
    BY <1>11, OptionsAssumption
  <2> QED BY <1>9, <1>14, <2>1, <2>2, <2>3
<1>17. asked[u].all <= a.all
  BY <1>11
<1> QED BY <1>6, <1>10, <1>11, <1>13, <1>14, <1>15, <1>16, <1>17, ReportStep

\* The runs of predictions of u end.
LEMMA RunEnds ==
    ASSUME TrackType, NEW u \in UEs
    PROVE  \E a \in [run : Nat, all : Nat] :
             [asked EXCEPT ![u].run = 0] = [asked EXCEPT ![u] = a] /\ a.all = asked[u].all
             /\ asked[u].all \in Nat
<1>1. asked[u] \in [run : Nat, all : Nat]
  BY DEF TrackType
<1>2. PICK a : a = [asked[u] EXCEPT !.run = 0]
  OBVIOUS
<1>3. a \in [run : Nat, all : Nat] /\ a.all = asked[u].all /\ asked[u].all \in Nat
  BY <1>1, <1>2
<1>4. [asked EXCEPT ![u].run = 0] = [asked EXCEPT ![u] = a]
  BY <1>2
<1> QED BY <1>3, <1>4

\* The ROI is not predicted, or not looked for: nobody is listed.
LEMMA UnlistedStep ==
    ASSUME TrackType, ConfirmInv, NEW u \in UEs, NEW c \in Cells,
           pattern = <<>>, UNCHANGED <<pattern, stopped, notify>>,
           NEW z \in UEStates, ue' = [ue EXCEPT ![u] = z],
           z.tais = Moved(ue[u], c).tais,
           z.streak \in {0, ue[u].streak},
           z.tracking => ue[u].tracking \/ tac[c] = arm,
           asked' = [asked EXCEPT ![u].run = 0]
    PROVE  TrackType' /\ ConfirmInv'
<1>1. PICK a \in [run : Nat, all : Nat] :
          [asked EXCEPT ![u].run = 0] = [asked EXCEPT ![u] = a] /\ a.all = asked[u].all
          /\ asked[u].all \in Nat
  BY RunEnds
<1>2. ue[u].streak <= asked[u].all /\ (ue[u].tracking => Contains(ue[u].tais, arm))
  BY DEF ConfirmInv
<1>3. ue[u] \in UEStates
  BY DEF TrackType
<1>4. /\ Contains(Moved(ue[u], c).tais, tac[c])
      /\ \A x : Contains(ue[u].tais, x) => Contains(Moved(ue[u], c).tais, x)
  BY <1>3, MovedFacts
<1>5. z.streak <= a.all
  BY <1>1, <1>2
<1>6. z.tracking => Contains(z.tais, arm)
  BY <1>2, <1>4
<1>7. asked[u].all <= a.all
  BY <1>1
<1> QED BY <1>1, <1>4, <1>5, <1>6, <1>7, ReportStep

\* A report from inside the region of interest.
LEMMA ReachROIStep ==
    ASSUME TrackType, ConfirmInv, NEW u \in UEs, NEW c \in Cells, ReachROI(u, c)
    PROVE  TrackType' /\ ConfirmInv' /\ ue'[u].level \in {ue[u].level, "ENTERED"}
<1> USE DEF TrackType
<1>1. /\ pattern = <<>> /\ UNCHANGED <<pattern, stopped, notify>>
      /\ asked' = [asked EXCEPT ![u].run = 0]
  BY DEF ReachROI, NewCell
<1>2. PICK s : s = Moved(ue[u], c)
  OBVIOUS
<1>3. /\ s \in UEStates /\ s.level = ue[u].level /\ s.tracking = ue[u].tracking
      /\ s.streak = ue[u].streak
  BY <1>2, MovedFacts
<1>4. PICK z : z = [s EXCEPT !.entered = TRUE, !.level = "ENTERED"]
  OBVIOUS
<1>5. /\ z \in UEStates /\ z.level = "ENTERED" /\ z.tracking = s.tracking
      /\ z.streak = s.streak /\ z.tais = s.tais
  BY <1>3, <1>4 DEF UEStates, Levels
<1>6. ue' = [ue EXCEPT ![u] = s] \/ ue' = [ue EXCEPT ![u] = z]
  BY <1>2, <1>4 DEF ReachROI
<1>7. ue'[u] = s \/ ue'[u] = z
  BY <1>6
<1>8. CASE ue' = [ue EXCEPT ![u] = s]
  <2>1. TrackType' /\ ConfirmInv'
    BY <1>1, <1>2, <1>3, <1>8, UnlistedStep
  <2> QED BY <1>3, <1>5, <1>7, <2>1
<1>9. CASE ue' = [ue EXCEPT ![u] = z]
  <2>1. TrackType' /\ ConfirmInv'
    BY <1>1, <1>2, <1>3, <1>5, <1>9, UnlistedStep
  <2> QED BY <1>3, <1>5, <1>7, <2>1
<1> QED BY <1>6, <1>8, <1>9

\* A report from before the arm TAI was seen.
LEMMA NotTrackedStep ==
    ASSUME TrackType, ConfirmInv, NEW u \in UEs, NEW c \in Cells, NotTracked(u, c)
    PROVE  TrackType' /\ ConfirmInv' /\ ue'[u].level = ue[u].level
<1> USE DEF TrackType
<1>1. /\ pattern = <<>> /\ UNCHANGED <<pattern, stopped, notify>>
      /\ asked' = [asked EXCEPT ![u].run = 0]
      /\ ue' = [ue EXCEPT ![u] = Moved(ue[u], c)]
  BY DEF NotTracked, NewCell
<1>2. PICK s : s = Moved(ue[u], c)
  OBVIOUS
<1>3. /\ s \in UEStates /\ s.level = ue[u].level /\ s.tracking = ue[u].tracking
      /\ s.streak = ue[u].streak
  BY <1>2, MovedFacts
<1>4. ue' = [ue EXCEPT ![u] = s]
  BY <1>1, <1>2
<1>5. TrackType' /\ ConfirmInv'
  BY <1>1, <1>2, <1>3, <1>4, UnlistedStep
<1> QED BY <1>3, <1>4, <1>5

\* A report for which the region of interest is not predicted.
LEMMA PredictOtherStep ==
    ASSUME TrackType, ConfirmInv, NEW u \in UEs, NEW c \in Cells, PredictOther(u, c)
    PROVE  TrackType' /\ ConfirmInv'
<1> USE DEF TrackType
<1>1. PICK s : s = Armed(Moved(ue[u], c), c)
  OBVIOUS
<1>2. /\ pattern = <<>> /\ UNCHANGED <<pattern, stopped, notify>>
      /\ ue[u].tracking \/ tac[c] = arm
      /\ asked' = [asked EXCEPT ![u].run = 0]
  BY DEF PredictOther, Tracked, NewCell
<1>3. /\ Moved(ue[u], c) \in UEStates /\ Moved(ue[u], c).streak = ue[u].streak
  BY MovedFacts
<1>4. /\ s \in UEStates /\ s.tais = Moved(ue[u], c).tais /\ s.streak = ue[u].streak
  BY <1>1, <1>3, ArmedFacts
<1>5. PICK y : y = [s EXCEPT !.level = IF @ \in {"WATCH", "ALERT"} THEN @ ELSE "WATCH"]
  OBVIOUS
<1>6. PICK z : z = [s EXCEPT !.streak = 0]
  OBVIOUS
<1>7. y \in UEStates /\ y.tais = s.tais /\ y.streak = s.streak
  <2>1. PICK lev \in Levels : y = [s EXCEPT !.level = lev]
    BY <1>4, <1>5 DEF UEStates, Levels
  <2> QED BY <1>4, <2>1 DEF UEStates
<1>8. z \in UEStates /\ z.tais = s.tais /\ z.streak = 0
  BY <1>4, <1>6 DEF UEStates
<1>9. ue' = [ue EXCEPT ![u] = y] \/ ue' = [ue EXCEPT ![u] = z]
  BY <1>1, <1>5, <1>6 DEF PredictOther
<1>10. CASE ue' = [ue EXCEPT ![u] = y]
  BY <1>2, <1>4, <1>7, <1>10, UnlistedStep
<1>11. CASE ue' = [ue EXCEPT ![u] = z]
  BY <1>2, <1>4, <1>8, <1>11, UnlistedStep
<1> QED BY <1>9, <1>10, <1>11

-----------------------------------------------------------------------------
(* Pattern mode, the loss of a UE, and the end                              *)

\* Matched: the path and the position stay; a UE is alerted in the last but
\* one TAI of the pattern.
LEMMA MatchedFacts ==
    ASSUME NEW s \in UEStates, NEW before, Len(pattern) \in Nat
    PROVE  /\ Matched(s, before) \in UEStates
           /\ Matched(s, before).tais = s.tais /\ Matched(s, before).pos = s.pos
           /\ Matched(s, before).alerted => s.alerted \/ s.pos = Len(pattern) - 1
<1> DEFINE n == Len(pattern)
           Good(z) == /\ z \in UEStates /\ z.tais = s.tais /\ z.pos = s.pos
                      /\ z.alerted => s.alerted \/ s.pos = n - 1
<1>1. s.pos \in Nat
  BY DEF UEStates
<1>2. Good([s EXCEPT !.entered = TRUE, !.level = "COMPLETE"])
  BY DEF UEStates, Levels
<1>3. s.pos = n - 1 => Good([s EXCEPT !.tracking = TRUE, !.level = "ALERT", !.alerted = TRUE])
  BY DEF UEStates, Levels
<1>4. Good([s EXCEPT !.tracking = TRUE, !.level = "TRACKING"])
  BY DEF UEStates, Levels
<1>5. Good([s EXCEPT !.level = "CLEARED"])
  BY DEF UEStates, Levels
<1>6. Good(s)
  OBVIOUS
<1> HIDE DEF Good
<1>7. Good(Matched(s, before))
  BY <1>2, <1>3, <1>4, <1>5, <1>6 DEF Matched
<1> QED BY <1>7 DEF Good

\* A pattern is a sequence of two TAIs or more, or none.
LEMMA PatternType ==
    ASSUME TrackType
    PROVE  /\ Len(pattern) \in Nat
           /\ pattern # <<>> => pattern \in Seq(TAIs) /\ Len(pattern) >= 2
  BY OptionsAssumption DEF TrackType

\* advance_pattern gives a natural number.
LEMMA AdvanceType ==
    ASSUME NEW pos \in Nat, NEW t
    PROVE  advance_pattern(pos, t) \in Nat
  BY DEF advance_pattern

\* What a report of a new TAI does to a UE.
LEMMA OtherTAIFacts ==
    ASSUME TrackType, NEW u \in UEs, NEW c \in Cells, OtherTAI(u, c)
    PROVE  \E z \in UEStates :
             /\ pattern # <<>> /\ UNCHANGED <<pattern, stopped, asked>>
             /\ ue' = [ue EXCEPT ![u] = z]
             /\ z.tais = Append(ue[u].tais, tac[c])
             /\ z.pos = advance_pattern(ue[u].pos, tac[c])
             /\ z.alerted => ue[u].alerted \/ z.pos = Len(pattern) - 1
             /\ notify' = IF z.pos = Len(pattern) - 1
                          THEN (IF ue[u].alerted \/ Contains(notify, u) THEN notify
                                ELSE Append(notify, u))
                          ELSE notify
             /\ file' = Saved(ue', notify')
<1> USE DEF TrackType
<1>1. PICK pos : pos = advance_pattern(ue[u].pos, tac[c])
  OBVIOUS
<1>2. PICK m : m = Moved(ue[u], c)
  OBVIOUS
<1>3. /\ m \in UEStates /\ m.alerted = ue[u].alerted
      /\ m.tais = ue[u].tais \/ m.tais = Append(ue[u].tais, tac[c])
  BY <1>2, MovedFacts
<1>4. PICK s : s = [m EXCEPT !.pos = pos]
  OBVIOUS
<1>5. ue[u].pos \in Nat
  BY DEF UEStates
<1>6. s \in UEStates /\ s.tais = m.tais /\ s.pos = pos /\ s.alerted = ue[u].alerted
  BY <1>1, <1>3, <1>4, <1>5, AdvanceType DEF UEStates
<1>7. /\ pattern # <<>> /\ UNCHANGED <<pattern, stopped, asked>>
      /\ m.tais # ue[u].tais
      /\ ue' = [ue EXCEPT ![u] = Matched(s, ue[u].pos)]
      /\ notify' = IF pos = Len(pattern) - 1 THEN Notified(u, s) ELSE notify
      /\ file' = Saved(ue', notify')
  BY <1>1, <1>2, <1>4 DEF OtherTAI, NewCell
<1>8. PICK z : z = Matched(s, ue[u].pos)
  OBVIOUS
<1>9. /\ z \in UEStates /\ z.tais = s.tais /\ z.pos = s.pos
      /\ z.alerted => s.alerted \/ s.pos = Len(pattern) - 1
  BY <1>6, <1>8, PatternType, MatchedFacts
<1>10. Notified(u, s) = IF ue[u].alerted \/ Contains(notify, u) THEN notify ELSE Append(notify, u)
  BY <1>6 DEF Notified
<1> QED BY <1>1, <1>3, <1>6, <1>7, <1>8, <1>9, <1>10

\* Each step of the specification keeps the types and ConfirmInv.
LEMMA ConfirmStep ==
    ASSUME TrackType, ConfirmInv, [Next]_vars
    PROVE  TrackType' /\ ConfirmInv'
<1>1. ASSUME NEW u \in UEs, OnLoss(u)  PROVE TrackType' /\ ConfirmInv'
  <2>1. PICK z : z = [ue[u] EXCEPT !.last = TRUE]
    OBVIOUS
  <2>2. ue[u] \in UEStates
    BY DEF TrackType
  <2>3. z \in UEStates /\ z.tais = ue[u].tais /\ z.tracking = ue[u].tracking
        /\ z.streak = ue[u].streak
    BY <2>1, <2>2 DEF UEStates
  <2>4. ue' = [ue EXCEPT ![u] = z] /\ UNCHANGED <<pattern, stopped, notify, asked>>
    BY <1>1, <2>1 DEF OnLoss
  <2>5. TrackType'
    BY <2>3, <2>4 DEF TrackType
  <2>6. ConfirmInv'
    <3>1. \A v \in UEs : /\ ue'[v].tais = ue[v].tais /\ ue'[v].tracking = ue[v].tracking
                         /\ ue'[v].streak = ue[v].streak
      BY <2>3, <2>4 DEF TrackType
    <3> QED BY <2>4, <3>1 DEF ConfirmInv
  <2> QED BY <2>5, <2>6
<1>2. ASSUME NEW u \in UEs, NEW c \in Cells, Predictor(u, c)  PROVE TrackType' /\ ConfirmInv'
  BY <1>2, ReachROIStep, NotTrackedStep, PredictOtherStep, PredictROIStep DEF Predictor
<1>3. ASSUME NEW u \in UEs, NEW c \in Cells, SameTAI(u, c)  PROVE TrackType' /\ ConfirmInv'
  <2>1. /\ pattern # <<>> /\ UNCHANGED <<pattern, stopped, notify, asked>>
        /\ ue' = [ue EXCEPT ![u] = Moved(ue[u], c)]
    BY <1>3 DEF SameTAI, NewCell
  <2>2. Moved(ue[u], c) \in UEStates
    BY MovedFacts DEF TrackType
  <2> QED BY <2>1, <2>2 DEF TrackType, ConfirmInv
<1>4. ASSUME NEW u \in UEs, NEW c \in Cells, OtherTAI(u, c)  PROVE TrackType' /\ ConfirmInv'
  <2>1. PICK z \in UEStates :
             /\ pattern # <<>> /\ UNCHANGED <<pattern, stopped, asked>>
             /\ ue' = [ue EXCEPT ![u] = z]
             /\ notify' \in {notify, Append(notify, u)}
    BY <1>4, OtherTAIFacts
  <2>2. notify' \in Seq(UEs)
    <3>1. notify \in Seq(UEs) /\ Append(notify, u) \in Seq(UEs)
      BY ContainsAppend DEF TrackType
    <3> QED BY <2>1, <3>1
  <2> QED BY <2>1, <2>2 DEF TrackType, ConfirmInv
<1>5. CASE Stop
  <2>1. UNCHANGED <<pattern, ue, notify, asked>> /\ stopped' = TRUE
    BY <1>5 DEF Stop
  <2> QED BY <2>1 DEF TrackType, ConfirmInv
<1>6. CASE UNCHANGED vars
  BY <1>6 DEF vars, TrackType, ConfirmInv
<1> QED BY <1>1, <1>2, <1>3, <1>4, <1>5, <1>6 DEF Next, Pattern

\* No UE is listed or confirmed at the start.
LEMMA InitConfirm == Init => TrackType /\ ConfirmInv
<1>1. SUFFICES ASSUME Init  PROVE TrackType /\ ConfirmInv
  OBVIOUS
<1>2. /\ pattern \in Patterns /\ stopped = FALSE /\ ue = [u \in UEs |-> NewUE]
      /\ notify = <<>> /\ asked = [u \in UEs |-> [run |-> 0, all |-> 0]]
  BY <1>1 DEF Init
<1>3. TrackType
  <2>1. ue \in [UEs -> UEStates]
    BY <1>2, NewUEType
  <2>2. asked \in [UEs -> [run : Nat, all : Nat]]
    BY <1>2
  <2>3. notify \in Seq(UEs)
    BY <1>2
  <2>4. stopped \in BOOLEAN
    BY <1>2
  <2> QED BY <1>2, <2>1, <2>2, <2>3, <2>4 DEF TrackType
<1>4. ConfirmInv
  BY <1>2, NewUEType DEF ConfirmInv, Contains
<1> QED BY <1>3, <1>4

\* The types and ConfirmInv hold of every behaviour.
THEOREM Confirmation == Spec => [](TrackType /\ ConfirmInv)
<1>1. (TrackType /\ ConfirmInv) /\ [Next]_vars => (TrackType /\ ConfirmInv)'
  BY ConfirmStep
<1> QED BY <1>1, InitConfirm, PTL DEF Spec

\* The predictor lists a UE only after it was in the arm TAI and after the ROI
\* was predicted --confirm times.
THEOREM ConfirmedBeforeListed == Spec => []ListedAfterConfirm
<1>1. TrackType /\ ConfirmInv => ListedAfterConfirm
  BY DEF ConfirmInv, ListedAfterConfirm
<1> QED BY <1>1, Confirmation, PTL

-----------------------------------------------------------------------------
(* The match of the pattern                                                 *)

\* The first TAI of a pattern does not come again in it.  With one that does,
\* A B A C say, the single number of advance_pattern is not enough: after A B
\* A the break at B makes it 0 though the path ends with A B.
NoRecurrence == \A p \in Patterns : \A i \in 2 .. Len(p) : p[i] # p[1]

\* EndsWith, of any pattern p.
Ends(p, path, k) ==
    k <= Len(path) /\ \A i \in 1 .. k : path[Len(path) - k + i] = p[i]

\* Of the beginnings of p the path ends with the empty one and the one of
\* length pos, and with no other.
Exact(p, path, pos) ==
    /\ pos \in 0 .. Len(p)
    /\ \A j \in 0 .. Len(p) : Ends(p, path, j) <=> j \in {0, pos}

\* Somewhere on the path all but the last TAI of p have been.
Passed(p, path) == \E i \in 1 .. Len(path) : Ends(p, SubSeq(path, 1, i), Len(p) - 1)

\* What PositionExact needs to be inductive, and ListedIffMatched: that
\* whoever is alerted is listed, so that Notified, which passes over the
\* alerted, leaves nobody out.
PositionInv == pattern # <<>> => \A u \in UEs : Exact(pattern, ue[u].tais, ue[u].pos)
ListInv ==
    pattern # <<>> =>
      \A u \in UEs : /\ ue[u].alerted => Contains(notify, u)
                     /\ Contains(notify, u) <=> Passed(pattern, ue[u].tais)

\* One more TAI: the path ends with k of the pattern if it ended with one
\* less and the new TAI is the k-th.
LEMMA EndsAppend ==
    ASSUME NEW p, NEW path \in Seq(TAIs), NEW t \in TAIs, NEW k \in Nat, k > 0
    PROVE  Ends(p, Append(path, t), k) <=> (Ends(p, path, k - 1) /\ p[k] = t)
<1> DEFINE new == Append(path, t)
           n == Len(path)
<1>1. /\ n \in Nat /\ Len(new) = n + 1 /\ new[n + 1] = t
      /\ \A i \in 1 .. n : new[i] = path[i]
  OBVIOUS
<1> HIDE DEF new, n
<1>2. Ends(p, new, k) <=> (k <= n + 1 /\ \A i \in 1 .. k : new[(n + 1) - k + i] = p[i])
  BY <1>1 DEF Ends
<1>3. Ends(p, path, k - 1) <=> (k - 1 <= n /\ \A i \in 1 .. k - 1 : path[n - (k - 1) + i] = p[i])
  BY DEF Ends, n
<1>4. ASSUME k <= n + 1
      PROVE  /\ new[(n + 1) - k + k] = t
             /\ \A i \in 1 .. k - 1 : new[(n + 1) - k + i] = path[n - (k - 1) + i]
  <2>1. (n + 1) - k + k = n + 1
    BY <1>1
  <2>2. ASSUME NEW i \in 1 .. k - 1  PROVE new[(n + 1) - k + i] = path[n - (k - 1) + i]
    <3>1. (n + 1) - k + i = n - (k - 1) + i /\ n - (k - 1) + i \in 1 .. n
      BY <1>1, <1>4
    <3> QED BY <1>1, <3>1
  <2> QED BY <1>1, <2>1, <2>2
<1>5. ASSUME Ends(p, new, k)  PROVE Ends(p, path, k - 1) /\ p[k] = t
  <2>1. k <= n + 1 /\ \A i \in 1 .. k : new[(n + 1) - k + i] = p[i]
    BY <1>2, <1>5
  <2>2. k \in 1 .. k /\ \A i \in 1 .. k - 1 : i \in 1 .. k
    OBVIOUS
  <2>3. p[k] = t
    BY <1>4, <2>1, <2>2
  <2>4. k - 1 <= n
    BY <1>1, <2>1
  <2>5. \A i \in 1 .. k - 1 : path[n - (k - 1) + i] = p[i]
    BY <1>4, <2>1, <2>2
  <2> QED BY <1>3, <2>3, <2>4, <2>5
<1>6. ASSUME Ends(p, path, k - 1), p[k] = t  PROVE Ends(p, new, k)
  <2>1. k - 1 <= n /\ \A i \in 1 .. k - 1 : path[n - (k - 1) + i] = p[i]
    BY <1>3, <1>6
  <2>2. k <= n + 1
    BY <1>1, <2>1
  <2>3. ASSUME NEW i \in 1 .. k  PROVE new[(n + 1) - k + i] = p[i]
    <3>1. CASE i = k
      BY <1>4, <1>6, <2>2, <3>1
    <3>2. CASE i # k
      <4>1. i \in 1 .. k - 1
        BY <3>2
      <4> QED BY <1>4, <2>1, <2>2, <4>1
    <3> QED BY <3>1, <3>2
  <2> QED BY <1>2, <2>2, <2>3
<1> QED BY <1>5, <1>6 DEF new

\* advance_pattern follows the path: if the position told what the path ends
\* with, the next one tells what the longer path ends with.
LEMMA AdvanceExact ==
    ASSUME TrackType, NoRecurrence, pattern # <<>>,
           NEW path \in Seq(TAIs), NEW t \in TAIs, NEW pos, Exact(pattern, path, pos)
    PROVE  Exact(pattern, Append(path, t), advance_pattern(pos, t))
<1>0. PICK p : p = pattern
  OBVIOUS
<1> DEFINE n == Len(p)
<1>1. n \in Nat /\ n >= 2
  BY <1>0, PatternType
<1>2. \A i \in 2 .. n : p[i] # p[1]
  BY <1>0 DEF NoRecurrence, TrackType
<1>3. PICK next : next = advance_pattern(pos, t)
  OBVIOUS
<1> HIDE DEF n
<1>4. next = IF pos < n /\ t = p[pos + 1] THEN pos + 1
             ELSE IF t = p[1] THEN 1 ELSE 0
  BY <1>0, <1>3 DEF advance_pattern, n
<1>5. /\ pos \in Nat /\ pos <= n
      /\ \A j \in 0 .. n : Ends(p, path, j) <=> j \in {0, pos}
  BY <1>0, <1>1 DEF n, Exact
<1>6. next \in 0 .. n
  BY <1>1, <1>4, <1>5
<1>7. ASSUME NEW j \in 0 .. n  PROVE Ends(p, Append(path, t), j) <=> j \in {0, next}
  <2>1. CASE j = 0
    <3>1. Len(Append(path, t)) \in Nat
      OBVIOUS
    <3> QED BY <2>1, <3>1 DEF Ends
  <2>2. CASE j # 0
    <3>1. j \in Nat /\ j > 0 /\ j - 1 \in 0 .. n
      BY <1>1, <2>2
    <3>2. Ends(p, Append(path, t), j) <=> (Ends(p, path, j - 1) /\ p[j] = t)
      BY <3>1, EndsAppend
    <3>3. Ends(p, path, j - 1) <=> j - 1 \in {0, pos}
      BY <1>5, <3>1
    <3>4. (j - 1 \in {0, pos} /\ p[j] = t) <=> j = next
      <4>1. CASE pos < n /\ t = p[pos + 1]
        <5>1. pos # 0 => t # p[1]
          BY <1>1, <1>2, <1>5, <4>1
        <5> QED BY <1>4, <1>5, <3>1, <4>1, <5>1
      <4>2. CASE ~(pos < n /\ t = p[pos + 1])
        BY <1>1, <1>4, <1>5, <3>1, <4>2
      <4> QED BY <4>1, <4>2
    <3> QED BY <2>2, <3>2, <3>3, <3>4
  <2> QED BY <2>1, <2>2
<1> QED BY <1>0, <1>3, <1>6, <1>7 DEF n, Exact

\* A longer path has passed if the shorter one had, or if it does now.
LEMMA PassedAppend ==
    ASSUME NEW p, NEW path \in Seq(TAIs), NEW t \in TAIs
    PROVE  Passed(p, Append(path, t))
             <=> (Passed(p, path) \/ Ends(p, Append(path, t), Len(p) - 1))
<1> DEFINE new == Append(path, t)
           n == Len(path)
<1>1. n \in Nat /\ new \in Seq(TAIs) /\ Len(new) = n + 1
  OBVIOUS
<1>2. ASSUME NEW i \in 1 .. n  PROVE SubSeq(new, 1, i) = SubSeq(path, 1, i)
  BY <1>1, <1>2
<1>3. SubSeq(new, 1, n + 1) = new
  BY <1>1
<1> HIDE DEF new, n
<1>4. \A i : i \in 1 .. n + 1 <=> (i \in 1 .. n \/ i = n + 1)
  BY <1>1
<1> QED BY <1>1, <1>2, <1>3, <1>4 DEF Passed, new, n

\* The steps that keep a UE's path, position and listing.
LEMMA KeepsMatch ==
    ASSUME PositionInv, ListInv, UNCHANGED <<pattern, notify>>,
           \A u \in UEs : /\ ue'[u].tais = ue[u].tais /\ ue'[u].pos = ue[u].pos
                          /\ ue'[u].alerted = ue[u].alerted
    PROVE  PositionInv' /\ ListInv'
  BY DEF PositionInv, ListInv

\* A report of a new TAI.
LEMMA OtherTAIMatch ==
    ASSUME TrackType, NoRecurrence, PositionInv, ListInv,
           NEW u \in UEs, NEW c \in Cells, OtherTAI(u, c)
    PROVE  PositionInv' /\ ListInv'
<1>1. PICK z \in UEStates :
        /\ pattern # <<>> /\ UNCHANGED <<pattern, stopped, asked>>
        /\ ue' = [ue EXCEPT ![u] = z]
        /\ z.tais = Append(ue[u].tais, tac[c])
        /\ z.pos = advance_pattern(ue[u].pos, tac[c])
        /\ z.alerted => ue[u].alerted \/ z.pos = Len(pattern) - 1
        /\ notify' = IF z.pos = Len(pattern) - 1
                     THEN (IF ue[u].alerted \/ Contains(notify, u) THEN notify
                           ELSE Append(notify, u))
                     ELSE notify
  BY OtherTAIFacts
<1>2. /\ ue[u].tais \in Seq(TAIs) /\ tac[c] \in TAIs
      /\ Len(pattern) \in Nat /\ Len(pattern) >= 2
  BY <1>1, PatternType DEF TrackType, UEStates, TAIs
<1>3. ue'[u] = z /\ \A v \in UEs : v # u => ue'[v] = ue[v]
  BY <1>1 DEF TrackType
<1>4. Exact(pattern, ue[u].tais, ue[u].pos)
  BY <1>1 DEF PositionInv
<1>5. Exact(pattern, z.tais, z.pos)
  BY <1>1, <1>2, <1>4, AdvanceExact
<1>6. PositionInv'
  BY <1>1, <1>3, <1>5 DEF PositionInv
<1>7. \A v \in UEs : /\ ue[v].alerted => Contains(notify, v)
                     /\ Contains(notify, v) <=> Passed(pattern, ue[v].tais)
  BY <1>1 DEF ListInv
<1>8. \A y : Contains(notify', y) <=> (Contains(notify, y) \/ (y = u /\ z.pos = Len(pattern) - 1))
  <2>1. \A y : Contains(Append(notify, u), y) <=> (Contains(notify, y) \/ y = u)
    BY ContainsAppend DEF TrackType
  <2> QED BY <1>1, <1>7, <2>1
<1>9. Ends(pattern, z.tais, Len(pattern) - 1) <=> z.pos = Len(pattern) - 1
  <2>1. \A n \in Nat : n >= 2 => n - 1 \in 0 .. n /\ n - 1 # 0
    OBVIOUS
  <2>2. Len(pattern) - 1 \in 0 .. Len(pattern) /\ Len(pattern) - 1 # 0
    BY <1>2, <2>1
  <2> QED BY <1>5, <2>2 DEF Exact
<1>10. Passed(pattern, z.tais) <=> (Passed(pattern, ue[u].tais) \/ z.pos = Len(pattern) - 1)
  BY <1>1, <1>2, <1>9, PassedAppend
<1>11. \A v \in UEs : /\ ue'[v].alerted => Contains(notify', v)
                      /\ Contains(notify', v) <=> Passed(pattern, ue'[v].tais)
  BY <1>1, <1>3, <1>7, <1>8, <1>10
<1>12. ListInv'
  BY <1>1, <1>11 DEF ListInv
<1> QED BY <1>6, <1>12

\* Each step keeps the position and the list exact.
LEMMA MatchStep ==
    ASSUME TrackType, NoRecurrence, PositionInv, ListInv, [Next]_vars
    PROVE  PositionInv' /\ ListInv'
<1>0. ue \in [UEs -> UEStates]
  BY DEF TrackType
<1>1. ASSUME NEW u \in UEs, OnLoss(u)  PROVE PositionInv' /\ ListInv'
  <2>1. PICK z : z = [ue[u] EXCEPT !.last = TRUE]
    OBVIOUS
  <2>2. z.tais = ue[u].tais /\ z.pos = ue[u].pos /\ z.alerted = ue[u].alerted
    BY <1>0, <2>1 DEF UEStates
  <2>3. ue' = [ue EXCEPT ![u] = z] /\ UNCHANGED <<pattern, notify>>
    BY <1>1, <2>1 DEF OnLoss
  <2>4. \A v \in UEs : /\ ue'[v].tais = ue[v].tais /\ ue'[v].pos = ue[v].pos
                       /\ ue'[v].alerted = ue[v].alerted
    BY <1>0, <2>2, <2>3
  <2> QED BY <2>3, <2>4, KeepsMatch
<1>2. ASSUME NEW u \in UEs, NEW c \in Cells, Predictor(u, c)
      PROVE  PositionInv' /\ ListInv'
  <2>1. pattern' = <<>>
    BY <1>2 DEF Predictor, ReachROI, NotTracked, PredictOther, PredictROI, Tracked, NewCell
  <2> QED BY <2>1 DEF PositionInv, ListInv
<1>3. ASSUME NEW u \in UEs, NEW c \in Cells, SameTAI(u, c)
      PROVE  PositionInv' /\ ListInv'
  <2>1. /\ UNCHANGED <<pattern, notify>>
        /\ Moved(ue[u], c).tais = ue[u].tais
        /\ ue' = [ue EXCEPT ![u] = Moved(ue[u], c)]
    BY <1>3 DEF SameTAI, NewCell
  <2>2. Moved(ue[u], c).pos = ue[u].pos /\ Moved(ue[u], c).alerted = ue[u].alerted
    BY <1>0, MovedFacts
  <2>3. \A v \in UEs : /\ ue'[v].tais = ue[v].tais /\ ue'[v].pos = ue[v].pos
                       /\ ue'[v].alerted = ue[v].alerted
    BY <1>0, <2>1, <2>2
  <2> QED BY <2>1, <2>3, KeepsMatch
<1>4. CASE Stop
  <2>1. UNCHANGED <<pattern, ue, notify>>
    BY <1>4 DEF Stop
  <2> QED BY <2>1, KeepsMatch
<1>5. CASE UNCHANGED vars
  <2>1. UNCHANGED <<pattern, ue, notify>>
    BY <1>5 DEF vars
  <2> QED BY <2>1, KeepsMatch
<1> QED BY <1>1, <1>2, <1>3, <1>4, <1>5, OtherTAIMatch DEF Next, Pattern

\* The position and the list start exact.
LEMMA InitMatch == Init => PositionInv /\ ListInv
<1>1. SUFFICES ASSUME Init  PROVE PositionInv /\ ListInv
  OBVIOUS
<1>2. pattern \in Patterns /\ notify = <<>> /\ ue = [u \in UEs |-> NewUE]
  BY <1>1 DEF Init
<1>3. \A u \in UEs : ue[u].tais = <<>> /\ ue[u].pos = 0 /\ ue[u].alerted = FALSE
  BY <1>2, NewUEType
<1>4. Len(pattern) \in Nat
  BY <1>2, OptionsAssumption
<1>5. Exact(pattern, <<>>, 0)
  BY <1>4 DEF Exact, Ends
<1>6. PositionInv
  BY <1>3, <1>5 DEF PositionInv
<1>7. ~Passed(pattern, <<>>) /\ \A u : ~Contains(notify, u)
  BY <1>2 DEF Contains, Passed
<1>8. ListInv
  BY <1>3, <1>7 DEF ListInv
<1> QED BY <1>6, <1>8

\* With a pattern whose first TAI does not come again, the position and the
\* list are exact in every behaviour.
THEOREM Matching ==
    ASSUME NoRecurrence
    PROVE  Spec => [](PositionInv /\ ListInv)
<1>1. NoRecurrence
  OBVIOUS
<1>2. /\ TrackType /\ ConfirmInv
      /\ PositionInv /\ ListInv
      /\ [Next]_vars
      => (PositionInv /\ ListInv)'
  BY <1>1, MatchStep
<1> QED BY <1>2, InitMatch, Confirmation, PTL DEF Spec

\* The one number advance_pattern keeps is the length of the longest beginning
\* of the pattern that the UE's path ends with.
THEOREM PositionIsExact ==
    ASSUME NoRecurrence
    PROVE  Spec => []PositionExact
<1>1. PositionInv /\ TrackType => PositionExact
  <2>1. SUFFICES ASSUME PositionInv, TrackType, pattern # <<>>, NEW u \in UEs
                 PROVE  /\ EndsWith(ue[u].tais, ue[u].pos)
                        /\ \A j \in ue[u].pos + 1 .. Len(pattern) : ~EndsWith(ue[u].tais, j)
    BY DEF PositionExact
  <2>2. /\ ue[u].pos \in 0 .. Len(pattern) /\ Len(pattern) \in Nat
        /\ \A j \in 0 .. Len(pattern) : EndsWith(ue[u].tais, j) <=> j \in {0, ue[u].pos}
    BY <2>1, PatternType DEF PositionInv, Exact, Ends, EndsWith
  <2>3. ASSUME NEW j \in ue[u].pos + 1 .. Len(pattern)  PROVE ~EndsWith(ue[u].tais, j)
    <3>1. j \in 0 .. Len(pattern) /\ j # 0 /\ j # ue[u].pos
      BY <2>2
    <3> QED BY <2>2, <3>1
  <2> QED BY <2>2, <2>3
<1> QED BY <1>1, Matching, Confirmation, PTL

\* In pattern mode the list holds exactly the UEs whose path has had all but
\* the last TAI of the pattern in a row.
THEOREM ListedExactly ==
    ASSUME NoRecurrence
    PROVE  Spec => []ListedIffMatched
<1>1. ListInv => ListedIffMatched
  BY DEF ListInv, ListedIffMatched, Passed, Ends, EndsWith
<1> QED BY <1>1, Matching, PTL
=============================================================================
