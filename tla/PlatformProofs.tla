--------------------------- MODULE PlatformProofs ---------------------------
(***************************************************************************)
(* Proofs about Platform for any network functions, clients and requests:  *)
(* the metrics server is gone when its WaitGroup has been waited for,      *)
(* nothing is counted where no registry shows it; the REST layer makes no  *)
(* second document of a key but by a race, loses no put that it answered,  *)
(* and patches what it was told to.                                        *)
(***************************************************************************)
EXTENDS Platform, FiniteSetTheorems, TLAPS

allvars == <<vars, servicevars>>

-----------------------------------------------------------------------------
(* The goroutines of an NF.                                                *)

MainAt == {"log", "init", "register", "made", "serve", "stop", "wait", "done"}
ServerAt == {"none", "started", "listening", "returned", "ended"}

\* The variables of an NF are functions of the NF.
ServiceTypes ==
    /\ main \in [NF -> MainAt]
    /\ server \in [NF -> ServerAt]
    /\ wg \in [NF -> Int]

\* The WaitGroup counts the goroutine of startServer while there is one, and there
\* is none before Run.
WaitGroupInv ==
    \A nf \in NF :
      /\ wg[nf] = IF server[nf] \in {"started", "listening", "returned"} THEN 1 ELSE 0
      /\ main[nf] \in {"log", "init", "register", "made"} => server[nf] = "none"

WaitInv == ServiceTypes /\ WaitGroupInv /\ WaitMeansEnded

\* The process begins without a server.
LEMMA StartedWaitInv ==
  ASSUME NEW at \in {"log", "done"}, NEW n, Started(at, n)
  PROVE  WaitInv
BY DEF Started, Fresh, WaitInv, ServiceTypes, WaitGroupInv, WaitMeansEnded, MainAt, ServerAt

\* Every step of an NF keeps the count of its WaitGroup.
LEMMA NextWaitInv ==
  ASSUME WaitInv, ServiceNext
  PROVE  WaitInv'
<1> USE DEF MainAt, ServerAt
<1>1. ASSUME NEW nf \in NF, Main(nf) \/ Stop(nf)
      PROVE  WaitInv'
  <2>1. CASE LogFileHook(nf)
    BY <2>1 DEF LogFileHook, WaitInv, ServiceTypes, WaitGroupInv, WaitMeansEnded, servervars
  <2>2. CASE MakeVectors(nf)
    BY <2>2 DEF MakeVectors, WaitInv, ServiceTypes, WaitGroupInv, WaitMeansEnded, servervars
  <2>3. CASE Register(nf)
    BY <2>3 DEF Register, WaitInv, ServiceTypes, WaitGroupInv, WaitMeansEnded, servervars
  <2>4. CASE NewServer(nf)
    BY <2>4 DEF NewServer, NewHttp2Server, WaitInv, ServiceTypes, WaitGroupInv,
                WaitMeansEnded, servervars
  <2>5. CASE Run(nf)
    BY <2>5 DEF Run, WaitInv, ServiceTypes, WaitGroupInv, WaitMeansEnded
  <2>6. CASE Stopped(nf)
    BY <2>6 DEF Stopped, WaitInv, ServiceTypes, WaitGroupInv, WaitMeansEnded, servervars
  <2>7. CASE Wait(nf)
    BY <2>7 DEF Wait, WaitInv, ServiceTypes, WaitGroupInv, WaitMeansEnded, servervars
  <2>8. CASE Stop(nf)
    BY <2>8 DEF Stop, WaitInv, ServiceTypes, WaitGroupInv, WaitMeansEnded
  <2> QED BY <1>1, <2>1, <2>2, <2>3, <2>4, <2>5, <2>6, <2>7, <2>8 DEF Main
<1>2. ASSUME NEW nf \in NF, Serve(nf)
      PROVE  WaitInv'
  <2>1. CASE startServer(nf)
    BY <2>1 DEF startServer, WaitInv, ServiceTypes, WaitGroupInv, WaitMeansEnded
  <2>2. CASE ServerClosed(nf)
    BY <2>2 DEF ServerClosed, WaitInv, ServiceTypes, WaitGroupInv, WaitMeansEnded
  <2>3. CASE ServerDone(nf)
    BY <2>3 DEF ServerDone, WaitInv, ServiceTypes, WaitGroupInv, WaitMeansEnded
  <2> QED BY <1>2, <2>1, <2>2, <2>3 DEF Serve
<1>3. ASSUME UNCHANGED <<main, server, wg>>
      PROVE  WaitInv'
  BY <1>3 DEF WaitInv, ServiceTypes, WaitGroupInv, WaitMeansEnded
<1>4. ASSUME NEW nf \in NF, Scrape(nf) \/ Request(nf) \/ Middleware(nf) \/ Finish(nf)
      PROVE  WaitInv'
  BY <1>3, <1>4 DEF Scrape, Request, Middleware, ginRecover, ginToLogrus, InboundMetrics, Up,
                    Finish, servervars
<1>5. CASE IncrNasMsg \/ IncrNgapMsg
  BY <1>3, <1>5 DEF IncrNasMsg, IncrNgapMsg, Message, servervars
<1>6. CASE Restart
  BY <1>6 DEF Restart, Fresh, WaitInv, ServiceTypes, WaitGroupInv, WaitMeansEnded
<1> QED BY <1>1, <1>2, <1>4, <1>5, <1>6 DEF ServiceNext

\* When wg.Wait has returned, the goroutine of the metrics server has ended, for
\* any number of NFs, restarts and failures to listen.
THEOREM ServerEndsBeforeDone == PlatformSpec => []WaitMeansEnded
<1>1. PlatformInit => WaitInv
  BY StartedWaitInv DEF PlatformInit, NoService, ServiceInit
<1>2. WaitInv /\ [PlatformNext]_allvars => WaitInv'
  <2> SUFFICES ASSUME WaitInv, [PlatformNext]_allvars PROVE WaitInv'
    OBVIOUS
  <2>1. CASE ServiceNext
    BY <2>1, NextWaitInv
  <2>2. CASE UNCHANGED servicevars
    BY <2>2 DEF servicevars, WaitInv, ServiceTypes, WaitGroupInv, WaitMeansEnded
  <2> QED BY <2>1, <2>2 DEF PlatformNext, allvars
<1>3. WaitInv => WaitMeansEnded
  BY DEF WaitInv
<1> QED BY <1>1, <1>2, <1>3, PTL DEF PlatformSpec, allvars

-----------------------------------------------------------------------------
(* The metrics.                                                            *)

\* A sequence, of whatever.
IsSeq(s) == \E S : s \in Seq(S)

MetricTypes ==
    /\ main \in [NF -> MainAt]
    /\ left = [nf \in NF |-> left[nf]]
    /\ vec \in [Vectors -> NF \cup {Nil}]
    /\ reg = [nf \in NF |-> reg[nf]]
    /\ counts = [nf \in NF \cup {Nil} |-> counts[nf]]
    /\ \A nf \in NF \cup {Nil} : IsSeq(counts[nf])

\* Init of nf is between making the vectors of g and registering them.
Pending(nf, g) == main[nf] = "register" /\ g = Head(left[nf])

Shown(nf, g) == g \in reg[nf] \/ Pending(nf, g)

\* The vectors of a group that is enabled, or is about to be, are those of an NF
\* that shows them or is about to.
VectorsInv ==
    \A g \in Vectors :
      g \in enabled \/ (\E nf \in NF : Pending(nf, g)) => vec[g] \in NF /\ Shown(vec[g], g)

\* What is counted belongs to a group with vectors.
CountsInv ==
    /\ counts[Nil] = <<>>
    /\ \A nf \in NF : \A i \in DOMAIN counts[nf] :
         counts[nf][i][1] \in Vectors /\ Shown(nf, counts[nf][i][1])

MetricInv == MetricTypes /\ VectorsInv /\ CountsInv

\* No increment is a sequence, and so is one more.
LEMMA EmptyIsSeq == IsSeq(<<>>)
<1>1. <<>> \in Seq({})
  OBVIOUS
<1> QED BY <1>1 DEF IsSeq

\* What one more increment makes of them.
LEMMA AppendAny ==
  ASSUME NEW s, IsSeq(s), NEW e
  PROVE  /\ IsSeq(Append(s, e))
         /\ DOMAIN Append(s, e) = DOMAIN s \cup {Len(s) + 1}
         /\ Append(s, e)[Len(s) + 1] = e
         /\ \A i \in DOMAIN s : Append(s, e)[i] = s[i]
<1>1. PICK S : s \in Seq(S)
  BY DEF IsSeq
<1> DEFINE T == S \cup {e}
<1>2. s \in Seq(T)
  <2>1. Len(s) \in Nat /\ DOMAIN s = 1 .. Len(s) /\ s = [i \in 1 .. Len(s) |-> s[i]]
    BY <1>1
  <2>2. \A i \in 1 .. Len(s) : s[i] \in T
    BY <1>1
  <2>3. s \in [1 .. Len(s) -> T]
    BY <2>1, <2>2
  <2> QED BY <2>1, <2>3
<1>3. e \in T
  OBVIOUS
<1> HIDE DEF T
<1>4. Append(s, e) \in Seq(T)
  BY <1>2, <1>3
<1>5. /\ Len(Append(s, e)) = Len(s) + 1 /\ Append(s, e)[Len(s) + 1] = e
      /\ \A i \in 1 .. Len(s) : Append(s, e)[i] = s[i]
      /\ DOMAIN s = 1 .. Len(s) /\ Len(s) \in Nat
  BY <1>2, <1>3
<1>6. DOMAIN Append(s, e) = 1 .. Len(s) + 1
  BY <1>4, <1>5
<1>7. 1 .. Len(s) + 1 = (1 .. Len(s)) \cup {Len(s) + 1}
  BY <1>5
<1> QED BY <1>4, <1>5, <1>6, <1>7 DEF IsSeq

\* A process that has just been started has counted nothing.
LEMMA FreshMetricInv ==
  ASSUME NEW at \in {"log", "done"}, main = [nf \in NF |-> at],
         Fresh(hook, left, vec, enabled, reg, counts, server, closing, scrape, wg, req)
  PROVE  MetricInv
<1>1. MetricTypes
  BY EmptyIsSeq DEF Fresh, MetricTypes, MainAt
<1>2. VectorsInv
  BY DEF Fresh, VectorsInv, Pending
<1>3. CountsInv
  BY DEF Fresh, CountsInv
<1> QED BY <1>1, <1>2, <1>3 DEF MetricInv

\* A step in which no NF goes into or out of Register, and in which nothing is
\* counted, keeps what is shown.
LEMMA MoveMetricInv ==
  ASSUME MetricInv, UNCHANGED metricvars,
         NEW nf \in NF, NEW at \in MainAt \ {"register"}, main[nf] # "register",
         main' = [main EXCEPT ![nf] = at]
  PROVE  MetricInv'
<1>1. \A m \in NF : \A g : Pending(m, g)' <=> Pending(m, g)
  BY DEF MetricInv, MetricTypes, Pending, metricvars
<1>2. \A m \in NF : \A g : Shown(m, g)' <=> Shown(m, g)
  BY <1>1 DEF Shown, metricvars
<1>3. MetricTypes'
  BY DEF MetricInv, MetricTypes, metricvars
<1>4. VectorsInv'
  BY <1>1, <1>2 DEF MetricInv, VectorsInv, metricvars
<1>5. CountsInv'
  BY <1>2 DEF MetricInv, CountsInv, metricvars
<1> QED BY <1>3, <1>4, <1>5 DEF MetricInv

\* A step that leaves Init alone and counts nothing.
LEMMA IdleMetricInv ==
  ASSUME MetricInv, UNCHANGED <<main, metricvars>>
  PROVE  MetricInv'
BY DEF MetricInv, MetricTypes, VectorsInv, CountsInv, Pending, Shown, metricvars

\* Counting a label of an enabled group keeps the invariant.
LEMMA CountMetricInv ==
  ASSUME MetricInv, NEW g \in Vectors, NEW label,
         counts' = Counted(g, label), UNCHANGED <<main, left, vec, enabled, reg>>
  PROVE  MetricInv'
<1>1. CASE g \notin enabled
  BY <1>1, IdleMetricInv DEF Counted, metricvars
<1>2. CASE g \in enabled
  <2>1. vec[g] \in NF /\ Shown(vec[g], g)
    BY <1>2 DEF MetricInv, VectorsInv
  <2>2. counts' = [counts EXCEPT ![vec[g]] = Append(@, <<g, label>>)]
    BY <1>2 DEF Counted
  <2>3. /\ counts'[vec[g]] = Append(counts[vec[g]], <<g, label>>) /\ IsSeq(counts[vec[g]])
        /\ \A nf \in NF \cup {Nil} : nf # vec[g] => counts'[nf] = counts[nf]
        /\ counts' = [nf \in NF \cup {Nil} |-> counts'[nf]]
    BY <2>1, <2>2 DEF MetricInv, MetricTypes
  <2>4. MetricTypes'
    <3>1. \A nf \in NF \cup {Nil} : IsSeq(counts'[nf])
      <4>1. IsSeq(counts'[vec[g]])
        BY <2>3, AppendAny
      <4> QED BY <2>3, <4>1 DEF MetricInv, MetricTypes
    <3> QED BY <2>3, <3>1 DEF MetricInv, MetricTypes
  <2>5. VectorsInv'
    BY DEF MetricInv, VectorsInv, Pending, Shown
  <2>6. counts'[Nil] = <<>>
    BY <2>1, <2>3, NFAssumption DEF MetricInv, CountsInv
  <2>7. ASSUME NEW nf \in NF, NEW i \in DOMAIN counts'[nf]
        PROVE  counts'[nf][i][1] \in Vectors /\ Shown(nf, counts'[nf][i][1])
    <3>1. CASE nf = vec[g] /\ i \notin DOMAIN counts[nf]
      <4>1. counts'[nf][i] = <<g, label>>
        BY <2>3, <2>7, <3>1, AppendAny
      <4> QED BY <2>1, <3>1, <4>1
    <3>2. CASE nf # vec[g] \/ i \in DOMAIN counts[nf]
      <4>1. i \in DOMAIN counts[nf] /\ counts'[nf][i] = counts[nf][i]
        BY <2>3, <2>7, <3>2, AppendAny
      <4> QED BY <4>1 DEF MetricInv, CountsInv
    <3> QED BY <3>1, <3>2
  <2>8. CountsInv'
    BY <2>6, <2>7 DEF CountsInv, Shown, Pending
  <2> QED BY <2>4, <2>5, <2>8 DEF MetricInv
<1> QED BY <1>1, <1>2

\* Making the vectors of the next group: they are pending from then on.
LEMMA MakeVectorsMetricInv ==
  ASSUME MetricInv, NEW nf \in NF, MakeVectors(nf)
  PROVE  MetricInv'
<1> DEFINE h == Head(left[nf])
<1>1. /\ main[nf] = "init" /\ main' = [main EXCEPT ![nf] = "register"]
      /\ UNCHANGED <<left, reg, counts>>
      /\ main \in [NF -> MainAt] /\ vec \in [Vectors -> NF \cup {Nil}]
  BY DEF MakeVectors, MetricInv, MetricTypes
<1>2. \A g \in Vectors : g \in enabled' <=> g \in enabled
  BY DEF MakeVectors, Vectors
<1>3. \A g \in Vectors : vec'[g] = IF g = h THEN nf ELSE vec[g]
  BY <1>1 DEF MakeVectors, Vectors
<1>4. MetricTypes'
  BY <1>1 DEF MakeVectors, MetricInv, MetricTypes, MainAt
<1>5. \A m \in NF : \A g : Pending(m, g)' <=> Pending(m, g) \/ (m = nf /\ g = h)
  BY <1>1 DEF Pending
<1>6. \A m \in NF : \A g : Shown(m, g) => Shown(m, g)'
  BY <1>1, <1>5 DEF Shown
<1>7. VectorsInv'
  <2> SUFFICES ASSUME NEW g \in Vectors, g \in enabled' \/ (\E m \in NF : Pending(m, g)')
               PROVE  vec'[g] \in NF /\ (Shown(vec[g], g))'
    BY DEF VectorsInv
  <2>1. CASE g = h
    BY <2>1, <1>3, <1>5 DEF Shown
  <2>2. CASE g # h
    <3>1. g \in enabled \/ (\E m \in NF : Pending(m, g))
      BY <1>2, <1>5, <2>2
    <3> QED BY <3>1, <2>2, <1>3, <1>6 DEF MetricInv, VectorsInv, Shown, Pending
  <2> QED BY <2>1, <2>2
<1>8. CountsInv'
  BY <1>1, <1>6 DEF MetricInv, CountsInv
<1> QED BY <1>4, <1>7, <1>8 DEF MetricInv

\* Registering them: what was pending is in the registry.
LEMMA RegisterMetricInv ==
  ASSUME MetricInv, NEW nf \in NF, Register(nf)
  PROVE  MetricInv'
<1> DEFINE h == Head(left[nf])
<1>1. /\ main[nf] = "register" /\ main' = [main EXCEPT ![nf] = "init"]
      /\ reg' = [reg EXCEPT ![nf] = @ \cup {h}]
      /\ enabled' = enabled \cup {h}
      /\ UNCHANGED <<vec, counts>>
      /\ \A m \in NF : m # nf => left'[m] = left[m]
  BY DEF Register, MetricInv, MetricTypes
<1>2. MetricTypes'
  BY <1>1 DEF Register, MetricInv, MetricTypes, MainAt
<1>3. \A m \in NF : \A g : Pending(m, g)' <=> Pending(m, g) /\ m # nf
  BY <1>1 DEF Pending, MetricInv, MetricTypes
<1>4. \A m \in NF : \A g : Shown(m, g) => Shown(m, g)'
  BY <1>1, <1>3 DEF Shown, Pending, MetricInv, MetricTypes
<1>5. Pending(nf, h)
  BY <1>1 DEF Pending
<1>6. VectorsInv'
  <2> SUFFICES ASSUME NEW g \in Vectors, g \in enabled' \/ (\E m \in NF : Pending(m, g)')
               PROVE  vec'[g] \in NF /\ (Shown(vec[g], g))'
    BY DEF VectorsInv
  <2>1. g \in enabled \/ (\E m \in NF : Pending(m, g))
    BY <1>1, <1>3, <1>5
  <2>2. vec[g] \in NF /\ Shown(vec[g], g)
    BY <2>1 DEF MetricInv, VectorsInv
  <2> QED BY <2>2, <1>1, <1>4 DEF Shown, Pending
<1>7. CountsInv'
  BY <1>1, <1>4 DEF MetricInv, CountsInv
<1> QED BY <1>2, <1>6, <1>7 DEF MetricInv

\* Every step of an NF, and every request and message it counts.
LEMMA NextMetricInv ==
  ASSUME MetricInv, ServiceNext
  PROVE  MetricInv'
<1>1. ASSUME NEW nf \in NF, Main(nf) \/ Stop(nf)
      PROVE  MetricInv'
  <2> USE DEF MainAt
  <2>1. CASE LogFileHook(nf)
    <3>1. PICK at \in {"done", "init"} : main' = [main EXCEPT ![nf] = at]
      BY <2>1 DEF LogFileHook
    <3> QED BY <2>1, <3>1, MoveMetricInv DEF LogFileHook
  <2>2. CASE NewServer(nf)
    <3>1. PICK at \in {"made", "done"} : main' = [main EXCEPT ![nf] = at]
      BY <2>2 DEF NewServer, NewHttp2Server
    <3> QED BY <2>2, <3>1, MoveMetricInv DEF NewServer
  <2>3. CASE Run(nf)
    BY <2>3, MoveMetricInv DEF Run
  <2>4. CASE Stopped(nf)
    BY <2>4, MoveMetricInv DEF Stopped
  <2>5. CASE Wait(nf)
    BY <2>5, MoveMetricInv DEF Wait
  <2>6. CASE Stop(nf)
    BY <2>6, MoveMetricInv DEF Stop
  <2> QED BY <1>1, <2>1, <2>2, <2>3, <2>4, <2>5, <2>6, MakeVectorsMetricInv,
             RegisterMetricInv DEF Main
<1>2. ASSUME NEW nf \in NF,
             \/ Serve(nf) \/ Scrape(nf) \/ Request(nf) \/ Finish(nf)
             \/ ginRecover(nf) \/ ginToLogrus(nf)
      PROVE  MetricInv'
  <2>1. UNCHANGED <<main, metricvars>>
    BY <1>2 DEF Serve, startServer, ServerClosed, ServerDone, Scrape, Request, Finish,
                ginRecover, ginToLogrus, Up, metricvars
  <2> QED BY <2>1, IdleMetricInv
<1>3. ASSUME NEW nf \in NF, InboundMetrics(nf)
      PROVE  MetricInv'
  <2>1. UNCHANGED <<main, left, vec, enabled, reg>>
    BY <1>3 DEF InboundMetrics, Up
  <2>2. counts' = counts \/ counts' = Counted("sbi", <<req[nf].id, req[nf].status>>)
    BY <1>3 DEF InboundMetrics
  <2> QED BY <2>1, <2>2, IdleMetricInv, CountMetricInv DEF metricvars, Vectors
<1>4. CASE IncrNasMsg \/ IncrNgapMsg
  <2>1. PICK g \in {"nas", "ngap"} : Message(g)
    BY <1>4 DEF IncrNasMsg, IncrNgapMsg
  <2> QED BY <2>1, CountMetricInv DEF Message, Vectors
<1>5. CASE Restart
  <2>1. MetricTypes'
    BY <1>5, EmptyIsSeq DEF Restart, Fresh, MetricTypes, MainAt
  <2>2. VectorsInv'
    BY <1>5 DEF Restart, Fresh, VectorsInv, Pending
  <2>3. CountsInv'
    BY <1>5 DEF Restart, Fresh, CountsInv
  <2> QED BY <2>1, <2>2, <2>3 DEF MetricInv
<1> QED BY <1>1, <1>2, <1>3, <1>4, <1>5 DEF ServiceNext, Middleware

\* NFs of one process take the vectors from each other, in any order of their
\* Inits, and yet nothing is counted in a vector that no registry shows.
THEOREM CountsAreShown == PlatformSpec => []CountedIsRegistered
<1>1. PlatformInit => MetricInv
  BY FreshMetricInv DEF PlatformInit, NoService, ServiceInit, Started
<1>2. MetricInv /\ [PlatformNext]_allvars => MetricInv'
  <2> SUFFICES ASSUME MetricInv, [PlatformNext]_allvars PROVE MetricInv'
    OBVIOUS
  <2>1. CASE ServiceNext
    BY <2>1, NextMetricInv
  <2>2. CASE UNCHANGED servicevars
    BY <2>2, IdleMetricInv DEF servicevars, metricvars
  <2> QED BY <2>1, <2>2 DEF PlatformNext, allvars
<1>3. MetricInv => CountedIsRegistered
  BY DEF MetricInv, CountsInv, CountedIsRegistered, Shown, Pending
<1> QED BY <1>1, <1>2, <1>3, PTL DEF PlatformSpec, allvars

-----------------------------------------------------------------------------
(* Requests, the access log and the counters.                              *)

LogOf(nf) == Placed(Path(nf))

AllGroups == {"business"} \cup Vectors

Line == [boot : Nat, id : Nat, panic : Handlers] \cup [boot : Nat, id : Nat, status : Nat]

Req == [id : Nat, does : Handlers, status : Nat, claims : {"user", "noUser"},
        panics : BOOLEAN, at : 0 .. 3]

Answered == [boot : Nat, nf : NF, id : Nat, claims : {"user", "noUser"}, status : Nat]

RequestTypes ==
    /\ main \in [NF -> MainAt]
    /\ hook = [nf \in NF |-> hook[nf]]
    /\ left \in [NF -> Seq(AllGroups)]
    /\ files \in [{LogOf(nf) : nf \in NF} -> Seq(Line)]
    /\ req \in [NF -> Req \cup {NoRequest}]
    /\ sent \in Nat /\ boot \in Nat
    /\ finished \subseteq Answered

Busy(nf) == req[nf] # NoRequest

\* An NF that works, or still has a request to work on, logs to its own file.
HookInv ==
    \A nf \in NF :
      /\ main[nf] \notin {"log", "done"} \/ Busy(nf) => hook[nf] = LogOf(nf)
      /\ main[nf] \in {"log", "init", "register", "made"} => ~Busy(nf)

\* Init leaves no group out: when it is over, sbi is enabled if the NF asked for it.
EnabledInv ==
    \A nf \in NF :
      /\ main[nf] = "register" => left[nf] # <<>>
      /\ "sbi" \in Groups(nf) =>
           /\ main[nf] \in {"log", "init", "register"}
              => "sbi" \in enabled \/ \E i \in DOMAIN left[nf] : left[nf][i] = "sbi"
           /\ main[nf] \in {"made", "serve", "stop", "wait"} \/ Busy(nf) => "sbi" \in enabled

\* The access log lines, and the increments, of a request, each with its place.
Contents(s) == {<<i, s[i]>> : i \in DOMAIN s}
LinesOf(f, id) == {p \in Contents(files[f]) : "status" \in DOMAIN p[2] /\ p[2].id = id}
AllCounts == UNION {{<<<<nf, i>>, counts[nf][i]>> : i \in DOMAIN counts[nf]} : nf \in NF}
CountsOf(id) == {p \in AllCounts : p[2][1] = "sbi" /\ p[2][2][1] = id}

\* An id is given to one request, and nothing is written of one that was not given.
IdsInv ==
    /\ \A nf \in NF : Busy(nf) => req[nf].id \in 1 .. sent
    /\ \A a, b \in NF : Busy(a) /\ Busy(b) /\ req[a].id = req[b].id => a = b
    /\ \A r \in finished : r.id \in 1 .. sent /\ r.boot <= boot
    /\ \A r \in finished, nf \in NF : Busy(nf) => req[nf].id # r.id
    /\ \A f \in DOMAIN files : \A i \in DOMAIN files[f] : files[f][i].id \in 1 .. sent
    /\ \A p \in AllCounts : p[2][1] = "sbi" => p[2][2][1] \in 1 .. sent

\* A set of places, each with what is there: it has one place, which holds x.
Single(places, x) == \E k : places = {<<k, x>>}

AccessLine(b, r, status) == [boot |-> b, id |-> r.id, status |-> status]

\* What has been written of a request when it is at a middleware: its line is
\* there behind ginToLogrus, its count behind InboundMetrics.
OnItsWay(nf, r) ==
    /\ r.at >= 2 => LinesOf(LogOf(nf), r.id) = {}
    /\ r.at = 2 => ~r.panics
    /\ r.at <= 1 => /\ r.panics <=> r.claims = "noUser"
                    /\ IF r.panics THEN LinesOf(LogOf(nf), r.id) = {}
                       ELSE Single(LinesOf(LogOf(nf), r.id), AccessLine(boot, r, r.status))
    /\ r.at >= 1 \/ r.panics => CountsOf(r.id) = {}
    /\ CountsOf(r.id) = {} \/ Single(CountsOf(r.id), <<"sbi", <<r.id, r.status>>>>)
    /\ r.at = 0 /\ ~r.panics /\ "sbi" \in Groups(nf) => CountsOf(r.id) # {}

FlightInv == \A nf \in NF : Busy(nf) => OnItsWay(nf, req[nf])

\* What is left of a request that has been answered.
Accounted(r) ==
    IF r.claims = "noUser"
    THEN r.status = 0 /\ LinesOf(LogOf(r.nf), r.id) = {} /\ CountsOf(r.id) = {}
    ELSE \E s \in Nat : /\ r.status \in {0, s}
                        /\ Single(LinesOf(LogOf(r.nf), r.id), AccessLine(r.boot, r, s))
                        /\ CountsOf(r.id) = {} \/ Single(CountsOf(r.id), <<"sbi", <<r.id, s>>>>)
                        /\ r.boot = boot /\ "sbi" \in Groups(r.nf) => CountsOf(r.id) # {}

FinishedInv == \A r \in finished : Accounted(r)

AccountInv ==
    MetricInv /\ RequestTypes /\ HookInv /\ EnabledInv /\ IdsInv /\ FlightInv /\ FinishedInv

\* The lines of a file when one more is written.
LEMMA AppendLines ==
  ASSUME NEW s \in Seq(Line), NEW e \in Line
  PROVE  /\ Append(s, e) \in Seq(Line)
         /\ Contents(Append(s, e)) = Contents(s) \cup {<<Len(s) + 1, e>>}
<1>1. IsSeq(s)
  BY DEF IsSeq
<1>2. /\ DOMAIN Append(s, e) = DOMAIN s \cup {Len(s) + 1}
      /\ Append(s, e)[Len(s) + 1] = e
      /\ \A i \in DOMAIN s : Append(s, e)[i] = s[i]
  BY <1>1, AppendAny
<1> DEFINE t == Append(s, e)
<1>3. t \in Seq(Line)
  OBVIOUS
<1> HIDE DEF t
<1>4. \A p : p \in Contents(t) <=> \E i \in DOMAIN t : p = <<i, t[i]>>
  BY DEF Contents
<1>5. \A p : p \in Contents(s) <=> \E i \in DOMAIN s : p = <<i, s[i]>>
  BY DEF Contents
<1>6. \A p : p \in Contents(t) <=> p \in Contents(s) \/ p = <<Len(s) + 1, e>>
  BY <1>2, <1>4, <1>5 DEF t
<1> QED BY <1>3, <1>6 DEF t

\* An access line has a status, a panic line has none.
LEMMA LineKinds ==
  /\ \A b, id, p : "status" \notin DOMAIN [boot |-> b, id |-> id, panic |-> p]
  /\ \A b, id, s : "status" \in DOMAIN [boot |-> b, id |-> id, status |-> s]
  OBVIOUS

\* A request is no NoRequest.
LEMMA ReqIsNot == NoRequest \notin Req
<1>1. "at" \notin DOMAIN NoRequest
  BY DEF NoRequest
<1>2. \A r \in Req : "at" \in DOMAIN r
  BY DEF Req
<1> QED BY <1>1, <1>2

\* Writing a line to the file of nf: the access lines of another request stay as
\* they are, and a panic line is no access line.
LEMMA FireLines ==
  ASSUME RequestTypes, NEW nf \in NF, hook[nf] = LogOf(nf), NEW line \in Line,
         files' = Fire(nf, line)
  PROVE  /\ files' \in [{LogOf(m) : m \in NF} -> Seq(Line)]
         /\ \A m \in NF : \A id : ("status" \notin DOMAIN line \/ line.id # id)
                              => LinesOf(LogOf(m), id)' = LinesOf(LogOf(m), id)
         /\ "status" \in DOMAIN line
            => \E n : LinesOf(LogOf(nf), line.id)' = LinesOf(LogOf(nf), line.id) \cup {<<n, line>>}
         /\ \A f \in DOMAIN files' : \A i \in DOMAIN files'[f] :
              files'[f][i] = line \/ \E j \in DOMAIN files[f] : files'[f][i] = files[f][j]
<1> DEFINE F == LogOf(nf)
           S == {LogOf(m) : m \in NF}
           n == Len(files[F]) + 1
<1>1. files \in [S -> Seq(Line)] /\ F \in S
  BY DEF RequestTypes
<1>2. files' = [files EXCEPT ![F] = Append(@, line)]
  BY DEF Fire
<1>3. Append(files[F], line) \in Seq(Line)
      /\ Contents(Append(files[F], line)) = Contents(files[F]) \cup {<<n, line>>}
  <2>1. files[F] \in Seq(Line)
    BY <1>1
  <2> QED BY <2>1, AppendLines
<1>4. files' \in [S -> Seq(Line)] /\ files'[F] = Append(files[F], line)
      /\ \A f \in S : f # F => files'[f] = files[f]
  BY <1>1, <1>2, <1>3
<1> HIDE DEF n
<1>5. \A f \in S : \A id : LinesOf(f, id)' =
        IF f = F /\ "status" \in DOMAIN line /\ line.id = id
        THEN LinesOf(f, id) \cup {<<n, line>>} ELSE LinesOf(f, id)
  <2> SUFFICES ASSUME NEW f \in S, NEW id
               PROVE  LinesOf(f, id)' =
                        IF f = F /\ "status" \in DOMAIN line /\ line.id = id
                        THEN LinesOf(f, id) \cup {<<n, line>>} ELSE LinesOf(f, id)
    OBVIOUS
  <2>1. CASE f = F
    <3>1. <<n, line>>[2] = line
      OBVIOUS
    <3>2. LinesOf(f, id)' = {p \in Contents(files[F]) \cup {<<n, line>>} :
                               "status" \in DOMAIN p[2] /\ p[2].id = id}
      BY <2>1, <1>3, <1>4 DEF LinesOf
    <3> QED BY <2>1, <3>1, <3>2 DEF LinesOf
  <2>2. CASE f # F
    BY <2>2, <1>4 DEF LinesOf
  <2> QED BY <2>1, <2>2
<1>6. \A f \in DOMAIN files' : \A i \in DOMAIN files'[f] :
        files'[f][i] = line \/ \E j \in DOMAIN files[f] : files'[f][i] = files[f][j]
  <2> SUFFICES ASSUME NEW f \in S, NEW i \in DOMAIN files'[f]
               PROVE  files'[f][i] = line \/ \E j \in DOMAIN files[f] : files'[f][i] = files[f][j]
    BY <1>4
  <2>1. CASE f = F
    <3>1. <<i, files'[f][i]>> \in Contents(Append(files[F], line))
      BY <2>1, <1>4 DEF Contents
    <3>2. <<i, files'[f][i]>> = <<n, line>>
          \/ \E j \in DOMAIN files[f] : <<i, files'[f][i]>> = <<j, files[f][j]>>
      BY <3>1, <1>3, <2>1 DEF Contents
    <3> QED BY <3>2
  <2>2. CASE f # F
    BY <2>2, <1>4
  <2> QED BY <2>1, <2>2
<1>7. \A m \in NF : LogOf(m) \in S
  OBVIOUS
<1>8. ASSUME NEW m \in NF, NEW id, "status" \notin DOMAIN line \/ line.id # id
      PROVE  LinesOf(LogOf(m), id)' = LinesOf(LogOf(m), id)
  BY <1>5, <1>7, <1>8
<1>9. "status" \in DOMAIN line
      => LinesOf(LogOf(nf), line.id)' = LinesOf(LogOf(nf), line.id) \cup {<<n, line>>}
  BY <1>5, <1>7
<1> QED BY <1>4, <1>6, <1>8, <1>9

\* A step that writes nothing and works on no request leaves the account as it is.
LEMMA IdleAccount ==
  ASSUME IdsInv, FlightInv, FinishedInv, UNCHANGED <<files, counts, req, sent, finished, boot>>
  PROVE  IdsInv' /\ FlightInv' /\ FinishedInv'
<1>1. /\ \A f, id : LinesOf(f, id)' = LinesOf(f, id)
      /\ AllCounts' = AllCounts /\ \A id : CountsOf(id)' = CountsOf(id)
      /\ \A nf : Busy(nf)' = Busy(nf)
  BY DEF LinesOf, CountsOf, AllCounts, Contents, Busy
<1>2. IdsInv'
  BY <1>1 DEF IdsInv
<1>3. FlightInv'
  BY <1>1 DEF FlightInv, OnItsWay
<1>4. FinishedInv'
  BY <1>1 DEF FinishedInv, Accounted
<1> QED BY <1>2, <1>3, <1>4

\* The order of Init holds sbi when the NF asked for it.
LEMMA InitOrderType ==
  ASSUME NEW nf \in NF
  PROVE  /\ InitOrder(nf) \in Seq(AllGroups)
         /\ "sbi" \in Groups(nf) => \E i \in DOMAIN InitOrder(nf) : InitOrder(nf)[i] = "sbi"
<1> DEFINE Has(g) == IF g \in Groups(nf) THEN <<g>> ELSE <<>>
           a == Has("business")
           b == Has("nas") \o Has("ngap")
<1>1. a \in Seq(AllGroups) /\ Has("nas") \in Seq(AllGroups) /\ Has("ngap") \in Seq(AllGroups)
      /\ Has("sbi") \in Seq(AllGroups)
  <2>1. \A g \in AllGroups : <<g>> \in Seq(AllGroups)
    OBVIOUS
  <2>2. <<>> \in Seq(AllGroups)
    OBVIOUS
  <2>3. {"business", "sbi", "nas", "ngap"} \subseteq AllGroups
    BY DEF AllGroups, Vectors
  <2> QED BY <2>1, <2>2, <2>3
<1>2. b \in Seq(AllGroups)
  BY <1>1
<1>3. InitOrder(nf) = (a \o Has("sbi")) \o b
  BY <1>1 DEF InitOrder
<1>4. InitOrder(nf) \in Seq(AllGroups)
  BY <1>1, <1>2, <1>3
<1>5. ASSUME "sbi" \in Groups(nf)
      PROVE  \E i \in DOMAIN InitOrder(nf) : InitOrder(nf)[i] = "sbi"
  <2> HIDE DEF a, b
  <2>1. InitOrder(nf) = (a \o <<"sbi">>) \o b
    BY <1>3, <1>5
  <2>2. Len(a) + 1 \in 1 .. Len(InitOrder(nf)) /\ InitOrder(nf)[Len(a) + 1] = "sbi"
    BY <2>1, <1>1, <1>2
  <2> QED BY <2>2, <1>4
<1> QED BY <1>4, <1>5

\* Taking the first group off what Init has to do leaves sbi in it, unless it is
\* sbi that is taken off.
LEMMA TailKeeps ==
  ASSUME NEW s \in Seq(AllGroups), s # <<>>, NEW i \in DOMAIN s
  PROVE  Tail(s) \in Seq(AllGroups) /\ (s[i] = Head(s) \/ \E j \in DOMAIN Tail(s) : Tail(s)[j] = s[i])
<1>1. CASE i = 1
  BY <1>1
<1>2. CASE i # 1
  <2>1. i - 1 \in DOMAIN Tail(s) /\ Tail(s)[i - 1] = s[i]
    BY <1>2
  <2> QED BY <2>1
<1> QED BY <1>1, <1>2

\* The steps of the goroutine of an NF leave the requests alone.
LEMMA MainAccountInv ==
  ASSUME AccountInv, NEW nf \in NF, Main(nf) \/ Stop(nf)
  PROVE  RequestTypes' /\ HookInv' /\ EnabledInv' /\ IdsInv' /\ FlightInv' /\ FinishedInv'
<1>1. UNCHANGED <<files, counts, req, sent, finished, boot>>
  BY DEF Main, Stop, LogFileHook, MakeVectors, Register, NewServer, Run, Stopped, Wait,
         logvars, metricvars, reqvars
<1>2. IdsInv' /\ FlightInv' /\ FinishedInv'
  BY <1>1, IdleAccount DEF AccountInv
<1>3. \A m \in NF : Busy(m)' <=> Busy(m)
  BY <1>1 DEF Busy
<1> USE DEF MainAt
<1>4. CASE LogFileHook(nf)
  <2>1. PICK f \in {NoFile, LogOf(nf)} :
          /\ hook' = [hook EXCEPT ![nf] = f]
          /\ main' = [main EXCEPT ![nf] = IF f = NoFile THEN "done" ELSE "init"]
    <3>1. createLogFile(Path(nf)) \subseteq {NoFile, LogOf(nf)}
      BY DEF createLogFile, LogOf
    <3>2. UNION {NewFileHook(p) : p \in createLogFile(Path(nf))} \subseteq {NoFile, LogOf(nf)}
      BY <3>1 DEF NewFileHook
    <3> QED BY <1>4, <3>2 DEF LogFileHook
  <2>2. UNCHANGED <<left, enabled>> /\ main[nf] = "log"
    BY <1>4 DEF LogFileHook, metricvars
  <2>3. RequestTypes'
    BY <1>1, <2>1, <2>2 DEF AccountInv, RequestTypes
  <2>4. HookInv'
    BY <1>3, <2>1, <2>2 DEF AccountInv, RequestTypes, HookInv
  <2>5. EnabledInv'
    BY <1>3, <2>1, <2>2 DEF AccountInv, RequestTypes, HookInv, EnabledInv
  <2> QED BY <1>2, <2>3, <2>4, <2>5
<1>5. CASE MakeVectors(nf)
  <2>1. /\ main[nf] = "init" /\ left[nf] # <<>> /\ main' = [main EXCEPT ![nf] = "register"]
        /\ UNCHANGED <<left, hook>> /\ enabled \subseteq enabled'
    BY <1>5 DEF MakeVectors, logvars
  <2>2. RequestTypes'
    BY <1>1, <2>1 DEF AccountInv, RequestTypes
  <2>3. HookInv'
    BY <1>3, <2>1 DEF AccountInv, RequestTypes, HookInv
  <2>4. EnabledInv'
    BY <1>3, <2>1 DEF AccountInv, RequestTypes, HookInv, EnabledInv
  <2> QED BY <1>2, <2>2, <2>3, <2>4
<1>6. CASE Register(nf)
  <2>1. /\ main[nf] = "register" /\ main' = [main EXCEPT ![nf] = "init"]
        /\ left' = [left EXCEPT ![nf] = Tail(@)] /\ UNCHANGED hook
        /\ enabled' = enabled \cup {Head(left[nf])}
    BY <1>6 DEF Register, logvars
  <2>2. left[nf] \in Seq(AllGroups) /\ left[nf] # <<>>
    BY <2>1 DEF AccountInv, RequestTypes, EnabledInv
  <2>3. RequestTypes'
    BY <1>1, <2>1, <2>2, TailKeeps DEF AccountInv, RequestTypes
  <2>4. HookInv'
    BY <1>3, <2>1 DEF AccountInv, RequestTypes, HookInv
  <2>5. ASSUME NEW m \in NF, "sbi" \in Groups(m), main'[m] \in {"log", "init", "register"}
        PROVE  "sbi" \in enabled' \/ \E i \in DOMAIN left'[m] : left'[m][i] = "sbi"
    <3>1. "sbi" \in enabled \/ \E i \in DOMAIN left[m] : left[m][i] = "sbi"
      BY <2>1, <2>5 DEF AccountInv, RequestTypes, EnabledInv
    <3>2. CASE m # nf
      BY <3>1, <3>2, <2>1 DEF AccountInv, RequestTypes
    <3>3. CASE m = nf
      <4>1. left'[nf] = Tail(left[nf])
        BY <2>1 DEF AccountInv, RequestTypes
      <4> QED BY <3>1, <3>3, <4>1, <2>1, <2>2, TailKeeps
    <3> QED BY <3>2, <3>3
  <2>6. EnabledInv'
    BY <1>3, <2>1, <2>5 DEF AccountInv, RequestTypes, HookInv, EnabledInv
  <2> QED BY <1>2, <2>3, <2>4, <2>6
<1>7. CASE NewServer(nf)
  <2>1. PICK at \in {"made", "done"} : main' = [main EXCEPT ![nf] = at]
    BY <1>7 DEF NewServer, NewHttp2Server
  <2>2. main[nf] = "init" /\ left[nf] = <<>> /\ UNCHANGED <<left, hook, enabled>>
    BY <1>7 DEF NewServer, metricvars, logvars
  <2>3. "sbi" \in Groups(nf) => "sbi" \in enabled
    BY <2>2 DEF AccountInv, EnabledInv
  <2>4. RequestTypes'
    BY <1>1, <2>1, <2>2 DEF AccountInv, RequestTypes
  <2>5. HookInv'
    BY <1>3, <2>1, <2>2 DEF AccountInv, RequestTypes, HookInv
  <2>6. EnabledInv'
    BY <1>3, <2>1, <2>2, <2>3 DEF AccountInv, RequestTypes, HookInv, EnabledInv
  <2> QED BY <1>2, <2>4, <2>5, <2>6
<1>8. CASE Run(nf) \/ Stopped(nf) \/ Wait(nf) \/ Stop(nf)
  <2>1. PICK at \in {"serve", "wait", "done", "stop"} : main' = [main EXCEPT ![nf] = at]
    BY <1>8 DEF Run, Stopped, Wait, Stop
  <2>2. main[nf] \in {"made", "stop", "wait", "serve"} /\ UNCHANGED <<left, hook, enabled>>
    BY <1>8 DEF Run, Stopped, Wait, Stop, metricvars, logvars
  <2>3. RequestTypes'
    BY <1>1, <2>1, <2>2 DEF AccountInv, RequestTypes
  <2>4. HookInv'
    BY <1>3, <2>1, <2>2 DEF AccountInv, RequestTypes, HookInv
  <2>5. EnabledInv'
    BY <1>3, <2>1, <2>2 DEF AccountInv, RequestTypes, HookInv, EnabledInv
  <2> QED BY <1>2, <2>3, <2>4, <2>5
<1> QED BY <1>4, <1>5, <1>6, <1>7, <1>8 DEF Main

\* A request is given an id of its own, of which nothing is written yet.
LEMMA RequestAccountInv ==
  ASSUME AccountInv, NEW nf \in NF, Request(nf)
  PROVE  RequestTypes' /\ HookInv' /\ EnabledInv' /\ IdsInv' /\ FlightInv' /\ FinishedInv'
<1>1. PICK does \in Handlers, claims \in {"user", "noUser"} :
        /\ <<does, claims>> \in Load(nf)
        /\ req' = [req EXCEPT ![nf] = [id |-> sent', does |-> does, status |-> 200,
                     claims |-> claims, panics |-> does # "answer", at |-> Len(Chain)]]
  BY Zenon DEF Request
<1> DEFINE r == [id |-> sent', does |-> does, status |-> 200,
                 claims |-> claims, panics |-> does # "answer", at |-> Len(Chain)]
<1>2. /\ sent' = sent + 1 /\ sent \in Nat /\ main[nf] = "serve" /\ ~Busy(nf)
      /\ UNCHANGED <<main, hook, left, enabled, files, counts, boot, finished>>
  BY DEF Request, AccountInv, RequestTypes, Busy, logvars, metricvars
<1>3. r \in Req /\ r # NoRequest /\ r.id = sent + 1 /\ r.at = 3
  <2>1. Len(Chain) = 3
    BY DEF Chain
  <2>2. r \in Req
    BY <1>2, <2>1 DEF Req
  <2> QED BY <1>2, <2>1, <2>2, ReqIsNot
<1> HIDE DEF r
<1>4. req'[nf] = r /\ (\A m \in NF : m # nf => req'[m] = req[m])
      /\ req' \in [NF -> Req \cup {NoRequest}]
  BY <1>1, <1>3 DEF AccountInv, RequestTypes, r
<1>5. \A m \in NF : Busy(m)' <=> Busy(m) \/ m = nf
  BY <1>3, <1>4 DEF Busy
<1>6. /\ \A f, id : LinesOf(f, id)' = LinesOf(f, id)
      /\ \A id : CountsOf(id)' = CountsOf(id)
  BY <1>2 DEF LinesOf, CountsOf, AllCounts, Contents
<1>7. /\ \A m \in NF : LinesOf(LogOf(m), sent + 1) = {}
      /\ CountsOf(sent + 1) = {}
  <2>1. \A m \in NF : LogOf(m) \in DOMAIN files
    BY DEF AccountInv, RequestTypes
  <2>2. sent + 1 \notin 1 .. sent
    BY <1>2
  <2>3. CountsOf(sent + 1) = {}
    BY <2>2 DEF AccountInv, IdsInv, CountsOf
  <2>4. ASSUME NEW m \in NF PROVE LinesOf(LogOf(m), sent + 1) = {}
    <3>1. \A p \in Contents(files[LogOf(m)]) : p[2].id \in 1 .. sent
      BY <2>1 DEF AccountInv, IdsInv, Contents
    <3> QED BY <2>2, <3>1 DEF LinesOf
  <2> QED BY <2>3, <2>4
<1>8. RequestTypes'
  BY <1>2, <1>4 DEF AccountInv, RequestTypes
<1>9. HookInv'
  BY <1>2, <1>5 DEF AccountInv, HookInv
<1>10. EnabledInv'
  BY <1>2, <1>5 DEF AccountInv, EnabledInv
<1>11. IdsInv'
  <2>1. \A id : id \in 1 .. sent => id \in 1 .. sent' /\ id # sent + 1
    BY <1>2
  <2>2. sent + 1 \in 1 .. sent'
    BY <1>2
  <2>3. \A m \in NF : Busy(m)' => req'[m].id \in 1 .. sent'
    BY <1>3, <1>4, <1>5, <2>1, <2>2 DEF AccountInv, IdsInv
  <2>4. \A a, b \in NF : Busy(a)' /\ Busy(b)' /\ req'[a].id = req'[b].id => a = b
    BY <1>3, <1>4, <1>5, <2>1 DEF AccountInv, IdsInv
  <2>5. \A q \in finished', m \in NF : Busy(m)' => req'[m].id # q.id
    BY <1>2, <1>3, <1>4, <1>5, <2>1 DEF AccountInv, IdsInv
  <2>6. \A q \in finished' : q.id \in 1 .. sent' /\ q.boot <= boot'
    BY <1>2, <2>1 DEF AccountInv, IdsInv
  <2>7. \A f \in DOMAIN files' : \A i \in DOMAIN files'[f] : files'[f][i].id \in 1 .. sent'
    BY <1>2, <2>1 DEF AccountInv, IdsInv
  <2>8. \A p \in AllCounts' : p[2][1] = "sbi" => p[2][2][1] \in 1 .. sent'
    BY <1>2, <2>1 DEF AccountInv, IdsInv, AllCounts
  <2> QED BY <2>3, <2>4, <2>5, <2>6, <2>7, <2>8 DEF IdsInv
<1>12. FlightInv'
  <2> SUFFICES ASSUME NEW m \in NF, Busy(m)'
               PROVE  OnItsWay(m, req[m])'
    BY DEF FlightInv
  <2>1. CASE m = nf
    BY <2>1, <1>3, <1>4, <1>6, <1>7 DEF OnItsWay
  <2>2. CASE m # nf
    BY <2>2, <1>2, <1>4, <1>5, <1>6 DEF AccountInv, FlightInv, OnItsWay
  <2> QED BY <2>1, <2>2
<1>13. FinishedInv'
  BY <1>2, <1>6 DEF AccountInv, FinishedInv, Accounted
<1> QED BY <1>8, <1>9, <1>10, <1>11, <1>12, <1>13

\* A request that goes a middleware up the chain: what is written on the way is
\* about this request only, so the others' accounts stay as they are.
LEMMA StepUp ==
  ASSUME AccountInv, NEW nf \in NF, Busy(nf),
         NEW r \in Req, r.id = req[nf].id, req' = [req EXCEPT ![nf] = r],
         UNCHANGED <<main, hook, left, enabled, sent, boot, finished>>,
         files' \in [{LogOf(m) : m \in NF} -> Seq(Line)],
         \A f \in DOMAIN files' : \A i \in DOMAIN files'[f] : files'[f][i].id \in 1 .. sent,
         \A p \in AllCounts' : p[2][1] = "sbi" => p[2][2][1] \in 1 .. sent,
         \A m \in NF : \A id : id # r.id => LinesOf(LogOf(m), id)' = LinesOf(LogOf(m), id),
         \A id : id # r.id => CountsOf(id)' = CountsOf(id),
         OnItsWay(nf, r)'
  PROVE  RequestTypes' /\ HookInv' /\ EnabledInv' /\ IdsInv' /\ FlightInv' /\ FinishedInv'
<1>1. req'[nf] = r /\ (\A m \in NF : m # nf => req'[m] = req[m])
      /\ req' \in [NF -> Req \cup {NoRequest}]
  BY DEF AccountInv, RequestTypes
<1>2. \A m \in NF : Busy(m)' <=> Busy(m)
  BY <1>1, ReqIsNot DEF Busy
<1>3. RequestTypes'
  BY <1>1 DEF AccountInv, RequestTypes
<1>4. HookInv'
  BY <1>2 DEF AccountInv, HookInv
<1>5. EnabledInv'
  BY <1>2 DEF AccountInv, EnabledInv
<1>6. IdsInv'
  <2>1. \A m \in NF : Busy(m) => req'[m].id = req[m].id
    BY <1>1
  <2>2. /\ \A m \in NF : Busy(m)' => req'[m].id \in 1 .. sent'
        /\ \A a, b \in NF : Busy(a)' /\ Busy(b)' /\ req'[a].id = req'[b].id => a = b
    BY <1>2, <2>1 DEF AccountInv, IdsInv
  <2>3. /\ \A q \in finished' : q.id \in 1 .. sent' /\ q.boot <= boot'
        /\ \A q \in finished', m \in NF : Busy(m)' => req'[m].id # q.id
    BY <1>2, <2>1 DEF AccountInv, IdsInv
  <2> QED BY <2>2, <2>3 DEF IdsInv
<1>7. FlightInv'
  <2> SUFFICES ASSUME NEW m \in NF, Busy(m)'
               PROVE  OnItsWay(m, req[m])'
    BY DEF FlightInv
  <2>1. CASE m = nf
    BY <2>1, <1>1 DEF OnItsWay
  <2>2. CASE m # nf
    <3>1. PICK x : x = req[m]
      OBVIOUS
    <3>2. req'[m] = x /\ x.id # r.id /\ OnItsWay(m, x)
      BY <2>2, <3>1, <1>1, <1>2 DEF AccountInv, IdsInv, FlightInv
    <3>3. /\ LinesOf(LogOf(m), x.id)' = LinesOf(LogOf(m), x.id)
          /\ CountsOf(x.id)' = CountsOf(x.id)
      BY <3>2
    <3>4. OnItsWay(m, x)'
      BY <3>2, <3>3 DEF OnItsWay
    <3> QED BY <3>2, <3>4
  <2> QED BY <2>1, <2>2
<1>8. FinishedInv'
  <2> SUFFICES ASSUME NEW q \in finished PROVE Accounted(q)'
    BY DEF FinishedInv
  <2>1. q.id # r.id /\ q.nf \in NF /\ Accounted(q)
    BY DEF AccountInv, IdsInv, FinishedInv, RequestTypes, Answered
  <2>2. /\ LinesOf(LogOf(q.nf), q.id)' = LinesOf(LogOf(q.nf), q.id)
        /\ CountsOf(q.id)' = CountsOf(q.id)
    BY <2>1
  <2> QED BY <2>1, <2>2 DEF Accounted
<1> QED BY <1>3, <1>4, <1>5, <1>6, <1>7, <1>8

\* Where in the chain a middleware is.
LEMMA Places ==
  ASSUME AccountInv, NEW nf \in NF
  PROVE  /\ Behind(nf, "ginRecover") => Busy(nf) /\ req[nf] \in Req /\ req[nf].at = 3
         /\ Behind(nf, "ginToLogrus") => Busy(nf) /\ req[nf] \in Req /\ req[nf].at = 2
         /\ Behind(nf, "InboundMetrics") => Busy(nf) /\ req[nf] \in Req /\ req[nf].at = 1
<1> SUFFICES ASSUME req[nf] # NoRequest, req[nf].at > 0
             PROVE  /\ Chain[req[nf].at] = "ginRecover" => req[nf].at = 3
                    /\ Chain[req[nf].at] = "ginToLogrus" => req[nf].at = 2
                    /\ Chain[req[nf].at] = "InboundMetrics" => req[nf].at = 1
                    /\ req[nf] \in Req
  BY DEF Behind, Busy
<1>1. req[nf] \in Req
  BY DEF AccountInv, RequestTypes
<1>2. req[nf].at \in {1, 2, 3}
  BY <1>1 DEF Req
<1>3. Chain[1] = "InboundMetrics" /\ Chain[2] = "ginToLogrus" /\ Chain[3] = "ginRecover"
  BY DEF Chain
<1> QED BY <1>1, <1>2, <1>3

\* What the fields of a request are when one of them is set.
LEMMA SetPanics ==
  ASSUME NEW r \in Req, NEW p \in BOOLEAN
  PROVE  /\ [r EXCEPT !.panics = p] \in Req
         /\ [r EXCEPT !.panics = p].id = r.id /\ [r EXCEPT !.panics = p].at = r.at
         /\ [r EXCEPT !.panics = p].panics = p /\ [r EXCEPT !.panics = p].status = r.status
         /\ [r EXCEPT !.panics = p].claims = r.claims
BY DEF Req

\* Writing the status of a request leaves the rest of it.
LEMMA SetStatus ==
  ASSUME NEW r \in Req, NEW n \in Nat
  PROVE  /\ [r EXCEPT !.status = n] \in Req
         /\ [r EXCEPT !.status = n].id = r.id /\ [r EXCEPT !.status = n].at = r.at
         /\ [r EXCEPT !.status = n].panics = r.panics /\ [r EXCEPT !.status = n].status = n
BY DEF Req

\* Leaving one middleware of the chain leaves the rest of the request.
LEMMA SetAt ==
  ASSUME NEW r \in Req, r.at > 0
  PROVE  /\ [r EXCEPT !.at = @ - 1] \in Req
         /\ [r EXCEPT !.at = @ - 1].id = r.id /\ [r EXCEPT !.at = @ - 1].at = r.at - 1
         /\ [r EXCEPT !.at = @ - 1].panics = r.panics
         /\ [r EXCEPT !.at = @ - 1].status = r.status
         /\ [r EXCEPT !.at = @ - 1].claims = r.claims
BY DEF Req

\* ginRecover logs a panic, which is no access line.
LEMMA RecoverAccountInv ==
  ASSUME AccountInv, NEW nf \in NF, ginRecover(nf)
  PROVE  RequestTypes' /\ HookInv' /\ EnabledInv' /\ IdsInv' /\ FlightInv' /\ FinishedInv'
<1>1. PICK r : r = req[nf]
  OBVIOUS
<1>2. PICK line : line = [boot |-> boot, id |-> r.id, panic |-> r.does]
  OBVIOUS
<1>3. PICK n : n = IF r.does = "panic" THEN 500 ELSE r.status
  OBVIOUS
<1> DEFINE t == [r EXCEPT !.panics = FALSE]
           u == [t EXCEPT !.status = n]
           s == [u EXCEPT !.at = @ - 1]
<1>4. Busy(nf) /\ r \in Req /\ r.at = 3 /\ n \in Nat
  <2>1. Busy(nf) /\ r \in Req /\ r.at = 3
    BY <1>1, Places DEF ginRecover
  <2> QED BY <2>1, <1>3 DEF Req
<1>5. /\ req' = [req EXCEPT ![nf] = s]
      /\ UNCHANGED <<main, hook, left, enabled, sent, boot, finished, counts>>
      /\ files' = IF r.panics THEN Fire(nf, line) ELSE files
  <2>1. s = [[r EXCEPT !.panics = FALSE, !.status = IF r.does = "panic" THEN 500 ELSE @]
               EXCEPT !.at = @ - 1]
    <3>1. t.status = r.status
      BY <1>4, SetPanics
    <3> QED BY <1>3, <3>1
  <2> HIDE DEF s
  <2> QED BY <1>1, <1>2, <2>1 DEF ginRecover, Up
<1>6. s \in Req /\ s.id = r.id /\ s.at = 2 /\ s.panics = FALSE
  <2>1. t \in Req /\ t.id = r.id /\ t.at = 3 /\ t.panics = FALSE
    BY <1>4, SetPanics
  <2> HIDE DEF t
  <2>2. u \in Req /\ u.id = r.id /\ u.at = 3 /\ u.panics = FALSE
    BY <1>4, <2>1, SetStatus
  <2> HIDE DEF u
  <2> QED BY <2>2, SetAt
<1> HIDE DEF s
<1>7. line \in Line /\ "status" \notin DOMAIN line /\ line.id = r.id
  BY <1>2, <1>4 DEF Req, Line, AccountInv, RequestTypes
<1>8. hook[nf] = LogOf(nf)
  BY <1>4 DEF AccountInv, HookInv
<1>9. /\ files' \in [{LogOf(m) : m \in NF} -> Seq(Line)]
      /\ \A m \in NF : \A id : LinesOf(LogOf(m), id)' = LinesOf(LogOf(m), id)
      /\ \A f \in DOMAIN files' : \A i \in DOMAIN files'[f] :
           files'[f][i] = line \/ \E j \in DOMAIN files[f] : files'[f][i] = files[f][j]
  <2>1. CASE r.panics
    <3>1. files' = Fire(nf, line)
      BY <2>1, <1>5
    <3>2. /\ files' \in [{LogOf(m) : m \in NF} -> Seq(Line)]
          /\ \A f \in DOMAIN files' : \A i \in DOMAIN files'[f] :
               files'[f][i] = line \/ \E j \in DOMAIN files[f] : files'[f][i] = files[f][j]
      BY <3>1, <1>7, <1>8, FireLines DEF AccountInv
    <3>3. \A m \in NF : \A id : ("status" \notin DOMAIN line \/ line.id # id)
                             => LinesOf(LogOf(m), id)' = LinesOf(LogOf(m), id)
      BY <3>1, <1>7, <1>8, FireLines DEF AccountInv
    <3> QED BY <3>2, <3>3, <1>7
  <2>2. CASE ~r.panics
    BY <2>2, <1>5 DEF AccountInv, RequestTypes, LinesOf, Contents
  <2> QED BY <2>1, <2>2
<1>10. \A f \in DOMAIN files' : \A i \in DOMAIN files'[f] : files'[f][i].id \in 1 .. sent
  <2>1. DOMAIN files' = DOMAIN files
    BY <1>9 DEF AccountInv, RequestTypes
  <2>2. r.id \in 1 .. sent
    BY <1>1, <1>4 DEF AccountInv, IdsInv
  <2> QED BY <2>1, <2>2, <1>7, <1>9 DEF AccountInv, IdsInv
<1>11. \A id : CountsOf(id)' = CountsOf(id)
  BY <1>5 DEF CountsOf, AllCounts
<1>12. OnItsWay(nf, s)'
  <2>1. OnItsWay(nf, r)
    BY <1>1, <1>4 DEF AccountInv, FlightInv
  <2>2. LinesOf(LogOf(nf), r.id) = {} /\ CountsOf(r.id) = {}
    BY <1>4, <2>1 DEF OnItsWay
  <2> QED BY <1>6, <1>9, <1>11, <2>2 DEF OnItsWay
<1>13. \A p \in AllCounts' : p[2][1] = "sbi" => p[2][2][1] \in 1 .. sent
  BY <1>5 DEF AccountInv, IdsInv, AllCounts
<1> QED BY <1>1, <1>4, <1>5, <1>6, <1>9, <1>10, <1>11, <1>12, <1>13, StepUp

\* ginToLogrus writes the access line of the request, unless it panics itself.
LEMMA LogrusAccountInv ==
  ASSUME AccountInv, NEW nf \in NF, ginToLogrus(nf)
  PROVE  RequestTypes' /\ HookInv' /\ EnabledInv' /\ IdsInv' /\ FlightInv' /\ FinishedInv'
<1>1. PICK r : r = req[nf]
  OBVIOUS
<1>2. PICK line : line = AccessLine(boot, r, r.status)
  OBVIOUS
<1>3. PICK p \in BOOLEAN : p = (r.claims = "noUser")
  OBVIOUS
<1> DEFINE t == [r EXCEPT !.panics = p]
           s == [t EXCEPT !.at = @ - 1]
<1>4. Busy(nf) /\ r \in Req /\ r.at = 2
  BY <1>1, Places DEF ginToLogrus
<1>5. ~r.panics /\ LinesOf(LogOf(nf), r.id) = {} /\ CountsOf(r.id) = {}
  <2>1. OnItsWay(nf, r)
    BY <1>1, <1>4 DEF AccountInv, FlightInv
  <2> QED BY <1>4, <2>1 DEF OnItsWay
<1>6. /\ req' = [req EXCEPT ![nf] = s]
      /\ UNCHANGED <<main, hook, left, enabled, sent, boot, finished, counts>>
      /\ files' = IF p THEN files ELSE Fire(nf, line)
  <2>1. (~(~r.panics /\ r.claims # "noUser")) = p
    BY <1>3, <1>5
  <2>2. req' = [req EXCEPT ![nf] =
                  [[r EXCEPT !.panics = ~(~r.panics /\ r.claims # "noUser")] EXCEPT !.at = @ - 1]]
    BY <1>1 DEF ginToLogrus, Up
  <2>3. /\ UNCHANGED <<main, hook, left, enabled, sent, boot, finished, counts>>
        /\ files' = IF ~r.panics /\ r.claims # "noUser" THEN Fire(nf, line) ELSE files
    BY <1>1, <1>2 DEF ginToLogrus, Up, AccessLine
  <2> QED BY <2>1, <2>2, <2>3
<1>7. s \in Req /\ s.id = r.id /\ s.at = 1 /\ s.panics = p /\ s.status = r.status
      /\ s.claims = r.claims
  <2>1. t \in Req /\ t.id = r.id /\ t.at = 2 /\ t.panics = p /\ t.status = r.status
        /\ t.claims = r.claims
    BY <1>4, SetPanics
  <2> HIDE DEF t
  <2> QED BY <2>1, SetAt
<1> HIDE DEF s
<1>8. line \in Line /\ "status" \in DOMAIN line /\ line.id = r.id
  BY <1>2, <1>4 DEF Req, Line, AccessLine, AccountInv, RequestTypes
<1>9. hook[nf] = LogOf(nf)
  BY <1>4 DEF AccountInv, HookInv
<1>10. /\ files' \in [{LogOf(m) : m \in NF} -> Seq(Line)]
       /\ \A m \in NF : \A id : id # r.id => LinesOf(LogOf(m), id)' = LinesOf(LogOf(m), id)
       /\ IF p THEN LinesOf(LogOf(nf), r.id)' = {} ELSE Single(LinesOf(LogOf(nf), r.id)', line)
       /\ \A f \in DOMAIN files' : \A i \in DOMAIN files'[f] :
            files'[f][i] = line \/ \E j \in DOMAIN files[f] : files'[f][i] = files[f][j]
  <2>1. CASE ~p
    <3>1. files' = Fire(nf, line)
      BY <2>1, <1>6
    <3>2. RequestTypes
      BY DEF AccountInv
    <3>3. line \in Line /\ hook[nf] = LogOf(nf)
      BY <1>8, <1>9
    <3>4. files' \in [{LogOf(m) : m \in NF} -> Seq(Line)]
      BY <3>1, <3>2, <3>3, FireLines
    <3>5. \A m \in NF : \A id : ("status" \notin DOMAIN line \/ line.id # id)
                              => LinesOf(LogOf(m), id)' = LinesOf(LogOf(m), id)
      BY <3>1, <3>2, <3>3, FireLines
    <3>6. "status" \in DOMAIN line
          => \E n : LinesOf(LogOf(nf), line.id)' = LinesOf(LogOf(nf), line.id) \cup {<<n, line>>}
      BY <3>1, <3>2, <3>3, FireLines
    <3>7. \A f \in DOMAIN files' : \A i \in DOMAIN files'[f] :
            files'[f][i] = line \/ \E j \in DOMAIN files[f] : files'[f][i] = files[f][j]
      BY <3>1, <3>2, <3>3, FireLines
    <3>8. Single(LinesOf(LogOf(nf), r.id)', line)
      BY <1>5, <1>8, <3>6 DEF Single
    <3> QED BY <1>8, <2>1, <3>4, <3>5, <3>7, <3>8
  <2>2. CASE p
    BY <2>2, <1>5, <1>6 DEF AccountInv, RequestTypes, LinesOf, Contents
  <2> QED BY <2>1, <2>2
<1>11. \A f \in DOMAIN files' : \A i \in DOMAIN files'[f] : files'[f][i].id \in 1 .. sent
  <2>1. DOMAIN files' = DOMAIN files
    BY <1>10 DEF AccountInv, RequestTypes
  <2>2. r.id \in 1 .. sent
    BY <1>1, <1>4 DEF AccountInv, IdsInv
  <2> QED BY <2>1, <2>2, <1>8, <1>10 DEF AccountInv, IdsInv
<1>12. \A id : CountsOf(id)' = CountsOf(id)
  BY <1>6 DEF CountsOf, AllCounts
<1>13. OnItsWay(nf, s)'
  <2>1. AccessLine(boot', s, s.status) = line
    BY <1>2, <1>6, <1>7 DEF AccessLine
  <2>2. s.panics <=> s.claims = "noUser"
    BY <1>3, <1>7
  <2>3. IF s.panics THEN LinesOf(LogOf(nf), s.id)' = {}
        ELSE Single(LinesOf(LogOf(nf), s.id)', AccessLine(boot', s, s.status))
    BY <1>7, <1>10, <2>1
  <2>4. CountsOf(s.id)' = {}
    BY <1>5, <1>7, <1>12
  <2> QED BY <1>7, <2>2, <2>3, <2>4 DEF OnItsWay
<1>14. \A x \in AllCounts' : x[2][1] = "sbi" => x[2][2][1] \in 1 .. sent
  BY <1>6 DEF AccountInv, IdsInv, AllCounts
<1> QED BY <1>1, <1>4, <1>6, <1>7, <1>10, <1>11, <1>12, <1>13, <1>14, StepUp

\* Counting a label adds it, if the group is enabled, to what was counted.
LEMMA CountOne ==
  ASSUME MetricInv, NEW g \in Vectors, NEW label, counts' = Counted(g, label)
  PROVE  \E k : AllCounts' = AllCounts \cup IF g \in enabled THEN {<<k, <<g, label>>>>} ELSE {}
<1>1. CASE g \notin enabled
  BY <1>1 DEF Counted, AllCounts
<1>2. CASE g \in enabled
  <2>1. PICK v \in NF : v = vec[g]
    BY <1>2 DEF MetricInv, VectorsInv
  <2>2. PICK c : c = <<g, label>>
    OBVIOUS
  <2>3. PICK n : n = Len(counts[v]) + 1
    OBVIOUS
  <2>4. counts' = [counts EXCEPT ![v] = Append(@, c)]
    BY <1>2, <2>1, <2>2 DEF Counted
  <2>5. /\ counts'[v] = Append(counts[v], c) /\ IsSeq(counts[v])
        /\ \A nf \in NF : nf # v => counts'[nf] = counts[nf]
    BY <2>4 DEF MetricInv, MetricTypes
  <2>6. /\ DOMAIN counts'[v] = DOMAIN counts[v] \cup {n} /\ counts'[v][n] = c
        /\ \A i \in DOMAIN counts[v] : counts'[v][i] = counts[v][i]
    BY <2>3, <2>5, AppendAny
  <2>7. \A p : /\ p \in AllCounts <=>
                    \E nf \in NF : \E i \in DOMAIN counts[nf] : p = <<<<nf, i>>, counts[nf][i]>>
               /\ p \in AllCounts' <=>
                    \E nf \in NF : \E i \in DOMAIN counts'[nf] : p = <<<<nf, i>>, counts'[nf][i]>>
    BY DEF AllCounts
  <2>8. ASSUME NEW p \in AllCounts' PROVE p \in AllCounts \/ p = <<<<v, n>>, c>>
    <3>1. PICK nf \in NF : \E i \in DOMAIN counts'[nf] : p = <<<<nf, i>>, counts'[nf][i]>>
      BY <2>7, <2>8
    <3>2. CASE nf = v
      BY <3>1, <3>2, <2>6, <2>7
    <3>3. CASE nf # v
      BY <3>1, <3>3, <2>5, <2>7
    <3> QED BY <3>2, <3>3
  <2>9. ASSUME NEW p \in AllCounts PROVE p \in AllCounts'
    <3>1. PICK nf \in NF : \E i \in DOMAIN counts[nf] : p = <<<<nf, i>>, counts[nf][i]>>
      BY <2>7, <2>9
    <3>2. CASE nf = v
      BY <3>1, <3>2, <2>6, <2>7
    <3>3. CASE nf # v
      BY <3>1, <3>3, <2>5, <2>7
    <3> QED BY <3>2, <3>3
  <2>10. <<<<v, n>>, c>> \in AllCounts'
    BY <2>6, <2>7
  <2>11. AllCounts' = AllCounts \cup {<<<<v, n>>, c>>}
    BY <2>8, <2>9, <2>10
  <2> QED BY <1>2, <2>2, <2>11
<1> QED BY <1>1, <1>2

\* InboundMetrics counts the request with the status that was logged.
LEMMA InboundAccountInv ==
  ASSUME AccountInv, NEW nf \in NF, InboundMetrics(nf)
  PROVE  RequestTypes' /\ HookInv' /\ EnabledInv' /\ IdsInv' /\ FlightInv' /\ FinishedInv'
<1>1. PICK r : r = req[nf]
  OBVIOUS
<1>2. PICK label : label = <<r.id, r.status>>
  OBVIOUS
<1> DEFINE s == [r EXCEPT !.at = @ - 1]
<1>3. Busy(nf) /\ r \in Req /\ r.at = 1 /\ r.panics \in BOOLEAN
  <2>1. Busy(nf) /\ r \in Req /\ r.at = 1
    BY <1>1, Places DEF InboundMetrics
  <2> QED BY <2>1 DEF Req
<1>4. OnItsWay(nf, r)
  BY <1>1, <1>3 DEF AccountInv, FlightInv
<1>5. /\ req' = [req EXCEPT ![nf] = s]
      /\ UNCHANGED <<main, hook, left, enabled, sent, boot, finished, files>>
      /\ counts' = IF r.panics THEN counts ELSE Counted("sbi", label)
  BY <1>1, <1>2 DEF InboundMetrics, Up
<1>6. s \in Req /\ s.id = r.id /\ s.at = 0 /\ s.panics = r.panics /\ s.status = r.status
      /\ s.claims = r.claims
  BY <1>3, SetAt
<1> HIDE DEF s
<1>7. PICK k : AllCounts' = AllCounts \cup IF ~r.panics /\ "sbi" \in enabled
                                              THEN {<<k, <<"sbi", label>>>>} ELSE {}
  <2>1. CASE r.panics
    BY <2>1, <1>5 DEF AllCounts
  <2>2. CASE ~r.panics
    <3>1. counts' = Counted("sbi", label) /\ "sbi" \in Vectors
      BY <2>2, <1>5 DEF Vectors
    <3>2. \E k : AllCounts' = AllCounts \cup IF "sbi" \in enabled THEN {<<k, <<"sbi", label>>>>} ELSE {}
      BY <3>1, CountOne DEF AccountInv
    <3> QED BY <2>2, <3>2
  <2> QED BY <2>1, <2>2
<1>8. PICK p : p = <<k, <<"sbi", label>>>>
  OBVIOUS
<1>81. p[2][1] = "sbi" /\ p[2][2][1] = r.id
  BY <1>2, <1>8
<1>82. AllCounts' = AllCounts \cup IF ~r.panics /\ "sbi" \in enabled THEN {p} ELSE {}
  BY <1>7, <1>8
<1>9. \A id : id # r.id => CountsOf(id)' = CountsOf(id)
  BY <1>81, <1>82 DEF CountsOf
<1>10. CountsOf(r.id)' = IF ~r.panics /\ "sbi" \in enabled THEN {p} ELSE {}
  <2>1. CountsOf(r.id) = {}
    BY <1>3, <1>4 DEF OnItsWay
  <2> QED BY <2>1, <1>81, <1>82 DEF CountsOf
<1>11. \A x \in AllCounts' : x[2][1] = "sbi" => x[2][2][1] \in 1 .. sent
  <2>1. r.id \in 1 .. sent
    BY <1>1, <1>3 DEF AccountInv, IdsInv
  <2> QED BY <2>1, <1>81, <1>82 DEF AccountInv, IdsInv
<1>12. /\ files' \in [{LogOf(m) : m \in NF} -> Seq(Line)]
       /\ \A f \in DOMAIN files' : \A i \in DOMAIN files'[f] : files'[f][i].id \in 1 .. sent
       /\ \A m \in NF : \A id : LinesOf(LogOf(m), id)' = LinesOf(LogOf(m), id)
  BY <1>5 DEF AccountInv, RequestTypes, IdsInv, LinesOf, Contents
<1>13. OnItsWay(nf, s)'
  <2>1. s.panics <=> s.claims = "noUser"
    BY <1>3, <1>4, <1>6 DEF OnItsWay
  <2>2. AccessLine(boot', s, s.status) = AccessLine(boot, r, r.status)
    BY <1>5, <1>6 DEF AccessLine
  <2>3. IF s.panics THEN LinesOf(LogOf(nf), s.id)' = {}
        ELSE Single(LinesOf(LogOf(nf), s.id)', AccessLine(boot', s, s.status))
    BY <1>3, <1>4, <1>6, <1>12, <2>2 DEF OnItsWay
  <2>4. IF ~s.panics /\ "sbi" \in enabled
        THEN Single(CountsOf(s.id)', <<"sbi", <<s.id, s.status>>>>) /\ CountsOf(s.id)' # {}
        ELSE CountsOf(s.id)' = {}
    BY <1>2, <1>6, <1>8, <1>10 DEF Single
  <2>5. "sbi" \in Groups(nf) => "sbi" \in enabled
    BY <1>3 DEF AccountInv, EnabledInv
  <2>6. CASE s.panics
    <3>1. CountsOf(s.id)' = {}
      BY <2>4, <2>6
    <3> QED BY <1>6, <2>1, <2>3, <2>6, <3>1 DEF OnItsWay
  <2>7. CASE ~s.panics
    <3>1. /\ CountsOf(s.id)' = {} \/ Single(CountsOf(s.id)', <<"sbi", <<s.id, s.status>>>>)
          /\ "sbi" \in Groups(nf) => CountsOf(s.id)' # {}
      BY <2>4, <2>5, <2>7
    <3> QED BY <1>6, <2>1, <2>3, <2>7, <3>1 DEF OnItsWay
  <2> QED BY <2>6, <2>7
<1> QED BY <1>1, <1>3, <1>5, <1>6, <1>9, <1>11, <1>12, <1>13, StepUp

\* A message is counted in nas or ngap, and leaves the requests alone.
LEMMA MessageAccountInv ==
  ASSUME AccountInv, IncrNasMsg \/ IncrNgapMsg
  PROVE  RequestTypes' /\ HookInv' /\ EnabledInv' /\ IdsInv' /\ FlightInv' /\ FinishedInv'
<1>1. PICK g \in {"nas", "ngap"} : Message(g)
  BY DEF IncrNasMsg, IncrNgapMsg
<1>2. /\ counts' = Counted(g, sent') /\ sent' = sent + 1 /\ sent \in Nat
      /\ UNCHANGED <<main, hook, left, enabled, files, req, finished, boot>>
  BY <1>1 DEF Message, logvars, AccountInv, RequestTypes
<1>3. PICK p : p[2][1] # "sbi" /\ AllCounts' = AllCounts \cup IF g \in enabled THEN {p} ELSE {}
  <2>1. PICK k : AllCounts' = AllCounts \cup IF g \in enabled THEN {<<k, <<g, sent'>>>>} ELSE {}
    BY <1>2, CountOne DEF AccountInv, Vectors
  <2>2. <<k, <<g, sent'>>>>[2][1] # "sbi"
    BY <1>1
  <2> QED BY <2>1, <2>2
<1>4. \A id : CountsOf(id)' = CountsOf(id)
  BY <1>3 DEF CountsOf
<1>5. /\ \A f, id : LinesOf(f, id)' = LinesOf(f, id)
      /\ \A nf : Busy(nf)' = Busy(nf)
  BY <1>2 DEF LinesOf, Contents, Busy
<1>6. RequestTypes' /\ HookInv' /\ EnabledInv'
  BY <1>2, <1>5 DEF AccountInv, RequestTypes, HookInv, EnabledInv
<1>7. IdsInv'
  <2>1. \A id : id \in 1 .. sent => id \in 1 .. sent'
    BY <1>2
  <2>2. \A x \in AllCounts' : x[2][1] = "sbi" => x[2][2][1] \in 1 .. sent'
    BY <1>3, <2>1 DEF AccountInv, IdsInv
  <2>3. \A f \in DOMAIN files' : \A i \in DOMAIN files'[f] : files'[f][i].id \in 1 .. sent'
    BY <1>2, <2>1 DEF AccountInv, IdsInv
  <2> QED BY <1>2, <1>5, <2>1, <2>2, <2>3 DEF AccountInv, IdsInv
<1>8. FlightInv'
  BY <1>2, <1>4, <1>5 DEF AccountInv, FlightInv, OnItsWay
<1>9. FinishedInv'
  BY <1>2, <1>4, <1>5 DEF AccountInv, FinishedInv, Accounted
<1> QED BY <1>6, <1>7, <1>8, <1>9

\* What has been written of a request when it is answered is all of its account.
LEMMA FinishAccountInv ==
  ASSUME AccountInv, NEW nf \in NF, Finish(nf)
  PROVE  RequestTypes' /\ HookInv' /\ EnabledInv' /\ IdsInv' /\ FlightInv' /\ FinishedInv'
<1>1. PICK r : r = req[nf]
  OBVIOUS
<1>2. PICK st : st = IF r.panics \/ r.does = "brokenPipe" THEN 0 ELSE r.status
  OBVIOUS
<1>3. PICK q : q = [boot |-> boot, nf |-> nf, id |-> r.id, claims |-> r.claims, status |-> st]
  OBVIOUS
<1>4. /\ Busy(nf) /\ r.at = 0 /\ finished' = finished \cup {q}
      /\ req' = [req EXCEPT ![nf] = NoRequest]
      /\ UNCHANGED <<main, hook, left, enabled, files, counts, sent, boot>>
  BY <1>1, <1>2, <1>3 DEF Finish, Busy, logvars, metricvars
<1>5. r \in Req /\ r.panics \in BOOLEAN /\ r.status \in Nat
  <2>1. r \in Req
    BY <1>1, <1>4 DEF AccountInv, RequestTypes, Busy
  <2> QED BY <2>1 DEF Req
<1>6. /\ q \in Answered /\ q.boot = boot /\ q.nf = nf /\ q.id = r.id /\ q.claims = r.claims
      /\ q.status = st
  <2>1. r.id \in Nat /\ r.claims \in {"user", "noUser"} /\ st \in Nat /\ boot \in Nat
    BY <1>2, <1>5 DEF Req, AccountInv, RequestTypes
  <2> QED BY <1>3, <2>1 DEF Answered
<1>7. /\ req'[nf] = NoRequest /\ \A m \in NF : m # nf => req'[m] = req[m]
      /\ req' \in [NF -> Req \cup {NoRequest}]
  BY <1>4 DEF AccountInv, RequestTypes
<1>8. \A m \in NF : Busy(m)' <=> Busy(m) /\ m # nf
  BY <1>7 DEF Busy
<1>9. /\ \A f, id : LinesOf(f, id)' = LinesOf(f, id)
      /\ \A id : CountsOf(id)' = CountsOf(id)
  BY <1>4 DEF LinesOf, CountsOf, AllCounts, Contents
<1>10. RequestTypes'
  BY <1>4, <1>6, <1>7 DEF AccountInv, RequestTypes
<1>11. HookInv' /\ EnabledInv'
  BY <1>4, <1>8 DEF AccountInv, HookInv, EnabledInv
<1>12. IdsInv'
  <2>1. r.id \in 1 .. sent /\ boot \in Nat /\ \A m \in NF : Busy(m) /\ m # nf => req[m].id # r.id
    BY <1>1, <1>4 DEF AccountInv, IdsInv, RequestTypes
  <2>2. /\ \A m \in NF : Busy(m)' => req'[m].id \in 1 .. sent'
        /\ \A a, b \in NF : Busy(a)' /\ Busy(b)' /\ req'[a].id = req'[b].id => a = b
    BY <1>4, <1>7, <1>8 DEF AccountInv, IdsInv
  <2>3. \A x \in finished' : x.id \in 1 .. sent' /\ x.boot <= boot'
    BY <1>4, <1>6, <2>1 DEF AccountInv, IdsInv
  <2>4. \A x \in finished', m \in NF : Busy(m)' => req'[m].id # x.id
    BY <1>4, <1>6, <1>7, <1>8, <2>1 DEF AccountInv, IdsInv
  <2>5. /\ \A f \in DOMAIN files' : \A i \in DOMAIN files'[f] : files'[f][i].id \in 1 .. sent'
        /\ \A p \in AllCounts' : p[2][1] = "sbi" => p[2][2][1] \in 1 .. sent'
    BY <1>4 DEF AccountInv, IdsInv, AllCounts
  <2> QED BY <2>2, <2>3, <2>4, <2>5 DEF IdsInv
<1>13. FlightInv'
  BY <1>4, <1>7, <1>8, <1>9 DEF AccountInv, FlightInv, OnItsWay
<1>14. FinishedInv'
  <2>1. \A x \in finished : Accounted(x)'
    BY <1>4, <1>9 DEF AccountInv, FinishedInv, Accounted
  <2>2. OnItsWay(nf, r)
    BY <1>1, <1>4 DEF AccountInv, FlightInv
  <2>3. Accounted(q)'
    <3>1. CASE r.panics
      <4>1. q.claims = "noUser" /\ q.status = 0
        BY <1>2, <1>4, <1>6, <2>2, <3>1 DEF OnItsWay
      <4>2. LinesOf(LogOf(nf), q.id)' = {} /\ CountsOf(q.id)' = {}
        BY <1>4, <1>6, <1>9, <2>2, <3>1 DEF OnItsWay
      <4> QED BY <1>6, <4>1, <4>2 DEF Accounted
    <3>2. CASE ~r.panics
      <4>1. q.claims # "noUser" /\ q.status \in {0, r.status}
        BY <1>2, <1>4, <1>6, <2>2, <3>2 DEF OnItsWay
      <4>2. Single(LinesOf(LogOf(nf), q.id)', AccessLine(q.boot, q, r.status))
        <5>1. AccessLine(q.boot, q, r.status) = AccessLine(boot, r, r.status)
          BY <1>6 DEF AccessLine
        <5> QED BY <1>4, <1>6, <1>9, <2>2, <3>2, <5>1 DEF OnItsWay
      <4>3. /\ CountsOf(q.id)' = {} \/ Single(CountsOf(q.id)', <<"sbi", <<q.id, r.status>>>>)
            /\ "sbi" \in Groups(nf) => CountsOf(q.id)' # {}
        BY <1>4, <1>6, <1>9, <2>2, <3>2 DEF OnItsWay
      <4> QED BY <1>5, <1>6, <4>1, <4>2, <4>3 DEF Accounted
    <3> QED BY <3>1, <3>2, <1>5
  <2> QED BY <1>4, <2>1, <2>3 DEF FinishedInv
<1> QED BY <1>10, <1>11, <1>12, <1>13, <1>14

\* A restart forgets the requests and the counters; the log file stays.
LEMMA RestartAccountInv ==
  ASSUME AccountInv, Restart
  PROVE  RequestTypes' /\ HookInv' /\ EnabledInv' /\ IdsInv' /\ FlightInv' /\ FinishedInv'
<1>1. /\ boot' = boot + 1 /\ boot \in Nat /\ UNCHANGED <<files, sent, finished>>
      /\ main' = [nf \in NF |-> "log"] /\ hook' = [nf \in NF |-> NoFile]
      /\ left' = [nf \in NF |-> InitOrder(nf)] /\ counts' = [nf \in NF \cup {Nil} |-> <<>>]
      /\ req' = [nf \in NF |-> NoRequest]
  BY DEF Restart, Fresh, AccountInv, RequestTypes
<1>2. /\ \A nf \in NF : ~Busy(nf)'
      /\ \A f, id : LinesOf(f, id)' = LinesOf(f, id)
      /\ AllCounts' = {} /\ \A id : CountsOf(id)' = {}
  BY <1>1 DEF Busy, LinesOf, CountsOf, AllCounts, Contents
<1>3. RequestTypes'
  BY <1>1, InitOrderType DEF AccountInv, RequestTypes, MainAt
<1>4. HookInv' /\ FlightInv'
  BY <1>1, <1>2 DEF HookInv, FlightInv
<1>5. EnabledInv'
  BY <1>1, <1>2, InitOrderType DEF EnabledInv
<1>6. \A q \in finished : q.boot \in Nat /\ q.boot <= boot
  BY DEF AccountInv, RequestTypes, Answered, IdsInv
<1>7. IdsInv'
  BY <1>1, <1>2, <1>6 DEF AccountInv, IdsInv
<1>8. FinishedInv'
  <2> SUFFICES ASSUME NEW q \in finished PROVE Accounted(q)'
    BY <1>1 DEF FinishedInv
  <2>1. Accounted(q) /\ q.boot # boot'
    BY <1>1, <1>6 DEF AccountInv, FinishedInv
  <2> QED BY <1>2, <2>1 DEF Accounted
<1> QED BY <1>3, <1>4, <1>5, <1>7, <1>8

\* A process that has just been started has no request.
LEMMA StartedAccountInv ==
  ASSUME NEW at \in {"log", "done"}, NEW n \in Nat, Started(at, n)
  PROVE  AccountInv
<1>1. /\ main = [nf \in NF |-> at] /\ boot = n /\ hook = [nf \in NF |-> NoFile]
      /\ left = [nf \in NF |-> InitOrder(nf)] /\ counts = [nf \in NF \cup {Nil} |-> <<>>]
      /\ req = [nf \in NF |-> NoRequest] /\ sent = 0 /\ finished = {}
      /\ files = [f \in {LogOf(nf) : nf \in NF} |-> <<>>]
  BY DEF Started, Fresh, LogOf
<1>2. \A nf \in NF : ~Busy(nf)
  BY <1>1 DEF Busy
<1>3. MetricInv
  BY FreshMetricInv DEF Started
<1>4. RequestTypes
  BY <1>1, InitOrderType DEF RequestTypes, MainAt
<1>5. HookInv /\ FlightInv
  BY <1>1, <1>2 DEF HookInv, FlightInv
<1>6. EnabledInv
  BY <1>1, <1>2, InitOrderType DEF EnabledInv
<1>7. IdsInv
  <2>1. AllCounts = {}
    BY <1>1 DEF AllCounts
  <2> QED BY <1>1, <1>2, <2>1 DEF IdsInv
<1>8. FinishedInv
  BY <1>1 DEF FinishedInv
<1> QED BY <1>3, <1>4, <1>5, <1>6, <1>7, <1>8 DEF AccountInv

\* The account of a request is what EveryRequestAccounted asks for.
LEMMA AccountedImplies ==
  ASSUME AccountInv
  PROVE  EveryRequestAccounted
<1> SUFFICES ASSUME NEW r \in finished, r.claims # "noUser"
             PROVE  /\ Cardinality(AccessLines(r)) = 1
                    /\ Cardinality(Increments(r)) <= 1
                    /\ r.boot = boot /\ "sbi" \in Groups(r.nf) => Increments(r) # {}
                    /\ \A i \in AccessLines(r) :
                         LET status == files[Placed(Path(r.nf))][i].status
                         IN  /\ r.status \in {0, status}
                             /\ \A p \in Increments(r) : counts[p[1]][p[2]][2][2] = status
  BY DEF EveryRequestAccounted
<1>1. PICK s \in Nat :
        /\ r.status \in {0, s}
        /\ Single(LinesOf(LogOf(r.nf), r.id), AccessLine(r.boot, r, s))
        /\ CountsOf(r.id) = {} \/ Single(CountsOf(r.id), <<"sbi", <<r.id, s>>>>)
        /\ r.boot = boot /\ "sbi" \in Groups(r.nf) => CountsOf(r.id) # {}
  BY DEF AccountInv, FinishedInv, Accounted
<1>2. PICK F : F = files[LogOf(r.nf)]
  OBVIOUS
<1>3. PICK a : a = AccessLine(r.boot, r, s)
  OBVIOUS
<1>4. a.boot = r.boot /\ a.id = r.id /\ a.status = s /\ "status" \in DOMAIN a
  BY <1>3 DEF AccessLine
<1>5. PICK n : LinesOf(LogOf(r.nf), r.id) = {<<n, a>>}
  BY <1>1, <1>3 DEF Single
<1>6. \A i : /\ i \in DOMAIN F /\ "status" \in DOMAIN F[i] /\ F[i].id = r.id
             <=> <<i, F[i]>> \in LinesOf(LogOf(r.nf), r.id)
  <2>1. \A i : i \in DOMAIN F <=> <<i, F[i]>> \in Contents(F)
    BY DEF Contents
  <2> QED BY <1>2, <2>1 DEF LinesOf
<1>7. n \in DOMAIN F /\ F[n] = a
  <2>1. <<n, a>> \in Contents(F)
    BY <1>2, <1>5 DEF LinesOf
  <2> QED BY <2>1 DEF Contents
<1>8. AccessLines(r) = {n}
  <2>1. \A i : i \in AccessLines(r) <=> /\ i \in DOMAIN F /\ "status" \in DOMAIN F[i]
                                        /\ F[i].boot = r.boot /\ F[i].id = r.id
    BY <1>2 DEF AccessLines, LogOf
  <2>2. \A i : i \in AccessLines(r) => i = n
    BY <1>5, <1>6, <2>1
  <2>3. n \in AccessLines(r)
    BY <1>4, <1>7, <2>1
  <2> QED BY <2>2, <2>3
<1>9. \A k : k \in Increments(r) <=>
        \E nf \in NF : \E i \in DOMAIN counts[nf] :
          k = <<nf, i>> /\ counts[nf][i][1] = "sbi" /\ counts[nf][i][2][1] = r.id
  BY DEF Increments
<1>10. \A p : p \in CountsOf(r.id) <=>
         \E nf \in NF : \E i \in DOMAIN counts[nf] :
           p = <<<<nf, i>>, counts[nf][i]>> /\ counts[nf][i][1] = "sbi" /\ counts[nf][i][2][1] = r.id
  <2>1. \A p : p \in AllCounts <=>
          \E nf \in NF : \E i \in DOMAIN counts[nf] : p = <<<<nf, i>>, counts[nf][i]>>
    BY DEF AllCounts
  <2> QED BY <2>1 DEF CountsOf
<1>11. CASE CountsOf(r.id) = {}
  <2>1. Increments(r) = {}
    BY <1>9, <1>10, <1>11
  <2>2. Cardinality(AccessLines(r)) = 1 /\ Cardinality(Increments(r)) = 0
    BY <1>8, <2>1, FS_Singleton, FS_EmptySet
  <2> QED BY <1>1, <1>2, <1>4, <1>7, <1>8, <1>11, <2>1, <2>2 DEF LogOf
<1>12. CASE Single(CountsOf(r.id), <<"sbi", <<r.id, s>>>>)
  <2>1. PICK c : c = <<"sbi", <<r.id, s>>>>
    OBVIOUS
  <2>2. PICK k : CountsOf(r.id) = {<<k, c>>}
    BY <1>12, <2>1 DEF Single
  <2>3. Increments(r) = {k} /\ counts[k[1]][k[2]] = c
    <3>1. PICK nf \in NF : \E i \in DOMAIN counts[nf] :
            <<k, c>> = <<<<nf, i>>, counts[nf][i]>>
            /\ counts[nf][i][1] = "sbi" /\ counts[nf][i][2][1] = r.id
      BY <1>10, <2>2
    <3>2. PICK i \in DOMAIN counts[nf] :
            /\ k = <<nf, i>> /\ c = counts[nf][i]
            /\ counts[nf][i][1] = "sbi" /\ counts[nf][i][2][1] = r.id
      BY <3>1
    <3>3. k \in Increments(r)
      BY <1>9, <3>2
    <3>4. ASSUME NEW x \in Increments(r) PROVE x = k
      <4> PICK m \in NF : \E j \in DOMAIN counts[m] :
              x = <<m, j>> /\ counts[m][j][1] = "sbi" /\ counts[m][j][2][1] = r.id
        BY <1>9, <3>4
      <4>1. PICK j \in DOMAIN counts[m] :
              x = <<m, j>> /\ counts[m][j][1] = "sbi" /\ counts[m][j][2][1] = r.id
        OBVIOUS
      <4>2. <<x, counts[m][j]>> \in CountsOf(r.id)
        BY <1>10, <4>1
      <4> QED BY <2>2, <4>2
    <3> QED BY <3>2, <3>3, <3>4
  <2>4. c[2][2] = s
    BY <2>1
  <2>5. Cardinality(Increments(r)) = 1 /\ Cardinality(AccessLines(r)) = 1
    BY <1>8, <2>3, FS_Singleton
  <2> QED BY <1>1, <1>2, <1>4, <1>7, <1>8, <2>3, <2>4, <2>5 DEF LogOf
<1> QED BY <1>1, <1>11, <1>12

\* For any number of NFs, of requests they work on at once and of restarts,
\* whatever the handlers do: exactly one access line and, while the process runs,
\* exactly one increment for every request whose claims, if any, name a user.
THEOREM RequestsAccounted == PlatformSpec => []EveryRequestAccounted
<1>1. PlatformInit => AccountInv
  BY StartedAccountInv, BoundAssumption DEF PlatformInit, NoService, ServiceInit
<1>2. AccountInv /\ [PlatformNext]_allvars => AccountInv'
  <2> SUFFICES ASSUME AccountInv, [PlatformNext]_allvars PROVE AccountInv'
    OBVIOUS
  <2>1. ASSUME ServiceNext
        PROVE  RequestTypes' /\ HookInv' /\ EnabledInv' /\ IdsInv' /\ FlightInv' /\ FinishedInv'
    <3>1. ASSUME UNCHANGED <<main, hook, left, enabled, files, counts, req, sent, finished, boot>>
          PROVE  RequestTypes' /\ HookInv' /\ EnabledInv' /\ IdsInv' /\ FlightInv' /\ FinishedInv'
      <4>1. IdsInv' /\ FlightInv' /\ FinishedInv'
        BY <3>1, IdleAccount DEF AccountInv
      <4>2. RequestTypes' /\ HookInv' /\ EnabledInv'
        BY <3>1 DEF AccountInv, RequestTypes, HookInv, EnabledInv, Busy
      <4> QED BY <4>1, <4>2
    <3>2. ASSUME NEW nf \in NF, Serve(nf) \/ Scrape(nf)
          PROVE  UNCHANGED <<main, hook, left, enabled, files, counts, req, sent, finished, boot>>
      BY <3>2 DEF Serve, startServer, ServerClosed, ServerDone, Scrape, logvars, metricvars,
                  reqvars
    <3> QED BY <2>1, <3>1, <3>2, MainAccountInv, RequestAccountInv, RecoverAccountInv,
               LogrusAccountInv, InboundAccountInv, FinishAccountInv, MessageAccountInv,
               RestartAccountInv DEF ServiceNext, Middleware
  <2>2. CASE ServiceNext
    <3>1. MetricInv'
      BY <2>2, NextMetricInv DEF AccountInv
    <3> QED BY <2>1, <2>2, <3>1 DEF AccountInv
  <2>3. CASE UNCHANGED servicevars
    <3>1. IdsInv' /\ FlightInv' /\ FinishedInv'
      BY <2>3, IdleAccount DEF AccountInv, servicevars
    <3>2. MetricInv'
      BY <2>3, IdleMetricInv DEF AccountInv, servicevars, metricvars
    <3>3. RequestTypes' /\ HookInv' /\ EnabledInv'
      BY <2>3 DEF AccountInv, RequestTypes, HookInv, EnabledInv, Busy, servicevars
    <3> QED BY <3>1, <3>2, <3>3 DEF AccountInv
  <2> QED BY <2>2, <2>3 DEF PlatformNext, allvars
<1>3. AccountInv => EveryRequestAccounted
  BY AccountedImplies
<1> QED BY <1>1, <1>2, <1>3, PTL DEF PlatformSpec, allvars

-----------------------------------------------------------------------------
(* The REST layer.                                                         *)

Doc == [id : Nat, key : Keys, data : Data]

\* What an update writes.
What == [key : Keys \cup {None}, data : Data]

Calls == {r \in [op : Puts, coll : BOOLEAN, args : Seq([key : Keys, data : Data])] :
            r.args # <<>>}
         \cup {r \in [op : Patching, coll : BOOLEAN, args : Seq([key : Keys, data : Patches])] :
                 Len(r.args) = 1}

\* A client works on a call from its find on, and only a put comes to an insert.
ClientTypes ==
    /\ pc \in [Clients -> {"idle", "find", "update", "insert"}]
    /\ call \in [Clients -> Calls \cup {NoCall}]
    /\ modified \in [Clients -> What]
    /\ \A c \in Clients : /\ pc[c] = "idle" <=> call[c] = NoCall
                          /\ pc[c] = "insert" => call[c].op \in Puts

DocTypes ==
    /\ docs \subseteq Doc /\ IsFiniteSet(docs)
    /\ \A d, e \in docs : d.id = e.id => d = e

\* A key that two clients work on has been raced for.
RaceInv ==
    \A c, d \in Clients : c # d => KeysOf(call[c]) \cap KeysOf(call[d]) \subseteq raced

\* An update gives a document no key that its filter does not match.
KeepsTo(what, k, coll) == what.key \in Keys => SameKey(what.key, k, coll)

\* What a call found is still so when it uses it, unless its key was raced for;
\* the key that a patch writes is in any case one that the call looked for.
Seen(c) ==
    /\ pc[c] = "update" /\ call[c].op \in Patching
       => KeepsTo(modified[c], Arg(c).key, call[c].coll)
    /\ pc[c] # "idle" /\ Arg(c).key \notin raced =>
       /\ pc[c] = "insert" => Matching(Arg(c).key, call[c].coll) = {}
       /\ pc[c] = "update" /\ call[c].op \in Puts => Matching(Arg(c).key, call[c].coll) # {}
       /\ pc[c] = "update" /\ call[c].op \in Patching =>
            \A d : Matching(Arg(c).key, call[c].coll) = {d} => modified[c] = Modified(c, d)

SeenInv == \A c \in Clients : Seen(c)

RestInv == ClientTypes /\ DocTypes /\ RaceInv /\ SeenInv /\ OneDocument

\* The calls clients make, by RequestAssumption.
LEMMA RequestsAreCalls ==
  /\ Requests \subseteq Calls
  /\ NoCall \notin Calls
  /\ NoData \in What
<1>1. Requests \subseteq Calls
  BY RequestAssumption DEF Calls
<1>2. NoCall \notin Calls
  BY DEF NoCall, Calls
<1>3. NoData \in What
  BY DEF NoData, Nothing, What, Data
<1> QED BY <1>1, <1>2, <1>3

\* The first element of a sequence.
LEMMA HeadIn ==
  ASSUME NEW S, NEW s \in Seq(S), s # <<>>
  PROVE  Head(s) \in S /\ Head(s) = s[1] /\ 1 \in DOMAIN s
  OBVIOUS

\* What a call in work is about.
LEMMA Working ==
  ASSUME ClientTypes, NEW c \in Clients, pc[c] # "idle"
  PROVE  /\ call[c] \in Calls
         /\ Arg(c).key \in Keys
         /\ call[c].op \in Puts => Arg(c) \in [key : Keys, data : Data]
         /\ call[c].op \in Patching => Arg(c) \in [key : Keys, data : Patches]
         /\ Alike({Arg(c).key}) \subseteq KeysOf(call[c])
         /\ Arg(c).key \in KeysOf(call[c])
<1>1. call[c] \in Calls
  BY DEF ClientTypes
<1>2. /\ call[c].op \in Puts => Arg(c) \in [key : Keys, data : Data]
      /\ call[c].op \in Patching => Arg(c) \in [key : Keys, data : Patches]
      /\ call[c].op \in Puts \cup Patching
      /\ 1 \in DOMAIN call[c].args /\ Arg(c) = call[c].args[1]
  <2>1. CASE call[c] \in [op : Puts, coll : BOOLEAN, args : Seq([key : Keys, data : Data])]
             /\ call[c].args # <<>>
    <3>1. call[c].args \in Seq([key : Keys, data : Data]) /\ call[c].args # <<>>
          /\ call[c].op \in Puts
      BY <2>1
    <3>2. call[c].op \notin Patching
      BY <3>1 DEF Puts, Patching
    <3> QED BY <3>1, <3>2, HeadIn DEF Arg
  <2>2. CASE call[c] \in [op : Patching, coll : BOOLEAN, args : Seq([key : Keys, data : Patches])]
             /\ Len(call[c].args) = 1
    <3>1. call[c].args \in Seq([key : Keys, data : Patches]) /\ call[c].op \in Patching
      BY <2>2
    <3>2. call[c].args # <<>>
      <4>1. Len(call[c].args) = 1
        BY <2>2
      <4>2. Len(<<>>) = 0
        OBVIOUS
      <4> QED BY <4>1, <4>2
    <3>3. call[c].op \notin Puts
      BY <3>1 DEF Puts, Patching
    <3> QED BY <3>1, <3>2, <3>3, HeadIn DEF Arg
  <2> QED BY <1>1, <2>1, <2>2 DEF Calls
<1>3. Arg(c).key \in Keys
  BY <1>2
<1>4. Alike({Arg(c).key}) \subseteq KeysOf(call[c])
  BY <1>2 DEF Alike, KeysOf
<1>5. Arg(c).key \in Alike({Arg(c).key})
  BY <1>3 DEF Alike
<1> QED BY <1>1, <1>2, <1>3, <1>4, <1>5

\* There is an id that no document has.
LEMMA FreshIdIsFresh ==
  ASSUME DocTypes
  PROVE  FreshId \in Nat /\ \A d \in docs : d.id # FreshId
<1> DEFINE N == Cardinality(docs)
           used == {d.id : d \in docs}
<1>1. N \in Nat
  BY FS_CardinalityType DEF DocTypes
<1>2. IsFiniteSet(used) /\ Cardinality(used) <= N
  <2> DEFINE f == [d \in docs |-> d.id]
  <2>1. f \in Surjection(docs, used)
    BY DEF Surjection
  <2> QED BY <2>1, FS_Surjection DEF DocTypes
<1>3. IsFiniteSet(1 .. N + 1) /\ Cardinality(1 .. N + 1) = N + 1
  BY <1>1, FS_Interval
<1>4. ~(1 .. N + 1 \subseteq used)
  <2> SUFFICES ASSUME 1 .. N + 1 \subseteq used PROVE FALSE
    OBVIOUS
  <2>1. Cardinality(1 .. N + 1) <= Cardinality(used)
    BY <1>2, FS_Subset
  <2>2. Cardinality(used) \in Nat
    BY <1>2, FS_CardinalityType
  <2> QED BY <1>1, <1>2, <1>3, <2>1, <2>2
<1>5. \E n \in 1 .. N + 1 : \A d \in docs : d.id # n
  BY <1>4
<1>6. FreshId \in 1 .. N + 1 /\ \A d \in docs : d.id # FreshId
  BY <1>5 DEF FreshId
<1> QED BY <1>1, <1>6

\* The documents that a step takes away or puts in have keys like those of ks.
Touches(ks) ==
    /\ \A d \in docs : d \notin docs' => d.key \in Alike(ks)
    /\ \A d \in docs' : d \notin docs => d.key \in Alike(ks)

\* Such a step does not change what a key that is not like them matches.
LEMMA Undisturbed ==
  ASSUME DocTypes, DocTypes', NEW ks, Touches(ks), NEW k \in Keys, k \notin Alike(ks), NEW coll
  PROVE  Matching(k, coll)' = Matching(k, coll)
<1>1. ASSUME NEW d, d.key \in Alike(ks), SameKey(d.key, k, coll)
      PROVE  FALSE
  <2>1. PICK l \in ks : folded[d.key] = folded[l]
    BY <1>1 DEF Alike
  <2>2. folded[k] = folded[d.key]
    BY <1>1 DEF SameKey
  <2> QED BY <2>1, <2>2 DEF Alike
<1> QED BY <1>1 DEF Touches, Matching

\* What a call has found stays true in a step of somebody else that leaves its key
\* alone or makes it a raced one.
LEMMA SeenFrame ==
  ASSUME ClientTypes, DocTypes, DocTypes', NEW c \in Clients, Seen(c),
         pc'[c] = pc[c], call'[c] = call[c], modified'[c] = modified[c], raced \subseteq raced',
         NEW ks, Touches(ks),
         pc[c] # "idle" => Arg(c).key \in raced' \/ Arg(c).key \notin Alike(ks)
  PROVE  Seen(c)'
<1>1. PICK r : r = call[c]
  OBVIOUS
<1>2. PICK a : a = Head(r.args)
  OBVIOUS
<1>3. Arg(c) = a /\ Arg(c)' = a /\ call[c] = r /\ call'[c] = r
  BY <1>1, <1>2 DEF Arg
<1>4. pc[c] = "update" /\ r.op \in Patching => KeepsTo(modified[c], a.key, r.coll)
  BY <1>3 DEF Seen
<1>5. (KeepsTo(modified[c], a.key, r.coll))' <=> KeepsTo(modified[c], a.key, r.coll)
  BY DEF KeepsTo, SameKey
<1>6. ASSUME pc[c] # "idle", a.key \notin raced'
      PROVE  /\ (Matching(a.key, r.coll))' = Matching(a.key, r.coll)
             /\ pc[c] = "insert" => Matching(a.key, r.coll) = {}
             /\ pc[c] = "update" /\ r.op \in Puts => Matching(a.key, r.coll) # {}
             /\ pc[c] = "update" /\ r.op \in Patching =>
                  \A d : Matching(a.key, r.coll) = {d} => modified[c] = Modified(c, d)
  <2>1. a.key \in Keys /\ a.key \notin Alike(ks) /\ a.key \notin raced
    BY <1>3, <1>6, Working
  <2>2. Matching(a.key, r.coll)' = Matching(a.key, r.coll)
    BY <2>1, Undisturbed
  <2> QED BY <1>3, <1>6, <2>1, <2>2 DEF Seen
<1>7. \A x : Modified(c, x)' = Modified(c, x)
  BY DEF Modified, Original, Arg
<1> QED BY <1>3, <1>4, <1>5, <1>6, <1>7 DEF Seen

\* A document is replaced by one with its id, under a key that is its own, is no
\* other's or has been doubled.
LEMMA ReplaceDoc ==
  ASSUME DocTypes, OneDocument, raced \subseteq raced', doubled \subseteq doubled',
         NEW d \in docs, NEW e \in Doc, e.id = d.id,
         e.key = d.key \/ e.key \in doubled' \/ \A y \in docs : y # d => y.key # e.key,
         docs' = (docs \ {d}) \cup {e}, NEW ks, d.key \in Alike(ks), e.key \in Alike(ks)
  PROVE  DocTypes' /\ OneDocument' /\ Touches(ks)
<1>1. IsFiniteSet(docs')
  <2>1. IsFiniteSet(docs \ {d})
    BY FS_RemoveElement DEF DocTypes
  <2> QED BY <2>1, FS_AddElement
<1>2. docs' \subseteq Doc /\ \A x, y \in docs' : x.id = y.id => x = y
  BY DEF DocTypes
<1>3. OneDocument'
  <2>1. \A y \in docs : y.key = e.key /\ e.key \notin raced' \cup doubled' => y = d
    BY DEF OneDocument
  <2>2. \A x, y \in docs : x.key = y.key /\ x.key \notin raced' \cup doubled' => x = y
    BY DEF OneDocument
  <2> QED BY <2>1, <2>2 DEF OneDocument
<1>4. Touches(ks)
  BY DEF Touches
<1> QED BY <1>1, <1>2, <1>3, <1>4 DEF DocTypes

\* UpdateOne replaces a document that matches, if there is one.  It gives it the
\* key of another document only when that one matched too.
LEMMA UpdateDoc ==
  ASSUME DocTypes, OneDocument, raced \subseteq raced', NEW k \in Keys, NEW coll,
         NEW what \in What, KeepsTo(what, k, coll), UpdateOne(k, coll, what)
  PROVE  DocTypes' /\ OneDocument' /\ Touches({k})
<1>1. doubled \subseteq doubled'
      /\ ((\E x, y \in Matching(k, coll) : x # y) => Alike({k}) \subseteq doubled')
  BY DEF UpdateOne
<1>2. CASE UNCHANGED docs
  BY <1>1, <1>2 DEF DocTypes, OneDocument, Touches
<1>3. ASSUME NEW d \in Matching(k, coll), docs' = (docs \ {d}) \cup {Set(d, what)}
      PROVE  DocTypes' /\ OneDocument' /\ Touches({k})
  <2>1. d \in docs /\ d \in Doc /\ d.key \in Keys /\ SameKey(d.key, k, coll)
    BY <1>3 DEF Matching, DocTypes, Doc
  <2>2. PICK e : e = Set(d, what)
    OBVIOUS
  <2>3. /\ e \in Doc /\ e.id = d.id
        /\ e.key = d.key \/ (what.key \in Keys /\ e.key = what.key)
    <3>1. what.key \in Keys \cup {None} /\ what.data \in Data
      BY DEF What
    <3>2. e.id = d.id /\ e.key = IF what.key = None THEN d.key ELSE what.key
      BY <2>1, <2>2 DEF Set, Doc
    <3>3. [f \in Fields |-> IF what.data[f] = None THEN d.data[f] ELSE what.data[f]] \in Data
      BY <2>1, <3>1 DEF Doc, Data
    <3>4. e \in Doc
      BY <2>1, <2>2, <3>1, <3>3 DEF Set, Doc
    <3> QED BY <3>1, <3>2, <3>4
  <2>4. SameKey(e.key, k, coll) /\ e.key \in Keys
    BY <2>1, <2>3 DEF KeepsTo
  <2>5. d.key \in Alike({k}) /\ e.key \in Alike({k})
    BY <2>1, <2>4 DEF Alike, SameKey
  <2>6. e.key = d.key \/ e.key \in doubled' \/ \A y \in docs : y # d => y.key # e.key
    <3> SUFFICES ASSUME NEW y \in docs, y # d, y.key = e.key PROVE e.key \in doubled'
      OBVIOUS
    <3>1. y \in Matching(k, coll)
      BY <2>4 DEF Matching
    <3> QED BY <1>1, <1>3, <2>5, <3>1
  <2> QED BY <1>1, <1>3, <2>1, <2>2, <2>3, <2>5, <2>6, ReplaceDoc
<1> QED BY <1>2, <1>3 DEF UpdateOne

\* InsertOne puts one in, under a key that has none, is raced for or is doubled.
LEMMA InsertDoc ==
  ASSUME DocTypes, OneDocument, raced \subseteq raced', doubled \subseteq doubled',
         NEW k \in Keys, NEW data \in Data, InsertOne(k, data),
         k \in raced' \cup doubled' \/ \A d \in docs : d.key # k
  PROVE  DocTypes' /\ OneDocument' /\ Touches({k})
<1>1. PICK n : n = FreshId
  OBVIOUS
<1> DEFINE e == [id |-> n, key |-> k, data |-> data]
<1>2. n \in Nat /\ \A d \in docs : d.id # n
  BY <1>1, FreshIdIsFresh
<1>3. docs' = docs \cup {e}
  BY <1>1 DEF InsertOne
<1>4. e \in Doc /\ e.id = n /\ e.key = k
  BY <1>2 DEF Doc
<1> HIDE DEF e
<1>5. IsFiniteSet(docs')
  BY <1>3, FS_AddElement DEF DocTypes
<1>6. docs' \subseteq Doc /\ \A x, y \in docs' : x.id = y.id => x = y
  BY <1>2, <1>3, <1>4 DEF DocTypes
<1>7. OneDocument'
  BY <1>3, <1>4 DEF OneDocument
<1>8. Touches({k})
  BY <1>3, <1>4 DEF Touches, Alike
<1> QED BY <1>5, <1>6, <1>7, <1>8 DEF DocTypes

\* Documents with keys like those of ks are taken away.
LEMMA RemoveDocs ==
  ASSUME DocTypes, OneDocument, raced \subseteq raced', doubled \subseteq doubled',
         NEW ks, docs' \subseteq docs, \A d \in docs : d \notin docs' => d.key \in Alike(ks)
  PROVE  DocTypes' /\ OneDocument' /\ Touches(ks)
<1>1. IsFiniteSet(docs')
  BY FS_Subset DEF DocTypes
<1>2. DocTypes'
  BY <1>1 DEF DocTypes
<1> QED BY <1>2 DEF OneDocument, Touches

\* The other clients are where they were.
OthersStay(c) ==
    \A e \in Clients : e # c => pc'[e] = pc[e] /\ call'[e] = call[e] /\ modified'[e] = modified[e]

\* A step of one client, on the documents of the key it works on.
LEMMA ClientStep ==
  ASSUME RestInv, NEW c \in Clients, pc[c] # "idle", NEW k, k = Arg(c).key, UNCHANGED raced,
         ClientTypes', DocTypes', OneDocument', Touches({k}), OthersStay(c),
         KeysOf(call'[c]) \subseteq KeysOf(call[c]), Seen(c)'
  PROVE  RestInv'
<1>1. RaceInv'
  BY DEF RestInv, RaceInv, OthersStay
<1>2. ASSUME NEW e \in Clients, e # c PROVE Seen(e)'
  <2>1. pc[e] # "idle" => Arg(e).key \in raced' \/ Arg(e).key \notin Alike({k})
    <3> SUFFICES ASSUME pc[e] # "idle", Arg(e).key \in Alike({k}) PROVE Arg(e).key \in raced
      OBVIOUS
    <3>1. Arg(e).key \in KeysOf(call[e])
      BY Working DEF RestInv
    <3>2. Arg(e).key \in KeysOf(call[c])
      BY Working DEF RestInv
    <3> QED BY <1>2, <3>1, <3>2 DEF RestInv, RaceInv
  <2> QED BY <1>2, <2>1, SeenFrame DEF RestInv, SeenInv, OthersStay
<1>3. SeenInv'
  BY <1>2 DEF SeenInv
<1> QED BY <1>1, <1>3 DEF RestInv

\* A call that returns.
LEMMA ReturnMoves ==
  ASSUME ClientTypes, NEW c \in Clients, NEW ok, Return(c, ok)
  PROVE  /\ ClientTypes' /\ OthersStay(c) /\ pc'[c] = "idle"
         /\ KeysOf(call'[c]) \subseteq KeysOf(call[c]) /\ Seen(c)'
<1>1. /\ pc' = [pc EXCEPT ![c] = "idle"] /\ call' = [call EXCEPT ![c] = NoCall]
      /\ modified' = [modified EXCEPT ![c] = NoData]
  BY DEF Return
<1>2. ClientTypes'
  BY <1>1, RequestsAreCalls DEF ClientTypes
<1>3. OthersStay(c) /\ pc'[c] = "idle" /\ call'[c] = NoCall
  BY <1>1 DEF ClientTypes, OthersStay
<1>4. KeysOf(NoCall) = {}
  BY DEF KeysOf, NoCall, Alike
<1> QED BY <1>2, <1>3, <1>4 DEF Seen

\* A put that is done: the next one of PutMany, or the call returns.
LEMMA DoneMoves ==
  ASSUME ClientTypes, NEW c \in Clients, pc[c] # "idle", call[c].op \in Puts, Done(c)
  PROVE  /\ ClientTypes' /\ OthersStay(c) /\ KeysOf(call'[c]) \subseteq KeysOf(call[c])
         /\ Seen(c)'
<1>1. CASE Len(call[c].args) > 1
  <2> DEFINE S == [key : Keys, data : Data]
             r == [call[c] EXCEPT !.args = Tail(@)]
  <2>1. /\ call' = [call EXCEPT ![c] = r] /\ pc' = [pc EXCEPT ![c] = "find"]
        /\ UNCHANGED modified
    BY <1>1 DEF Done
  <2>2. call[c] \in [op : Puts, coll : BOOLEAN, args : Seq(S)]
    <3>1. call[c].op \notin Patching
      BY DEF Puts, Patching
    <3>2. call[c] \in Calls
      BY Working
    <3> QED BY <3>1, <3>2 DEF Calls
  <2>3. call[c].args \in Seq(S)
    BY <2>2
  <2>4. /\ Tail(call[c].args) \in Seq(S) /\ Tail(call[c].args) # <<>>
        /\ \A i \in DOMAIN Tail(call[c].args) :
             i + 1 \in DOMAIN call[c].args /\ Tail(call[c].args)[i] = call[c].args[i + 1]
    <3> HIDE DEF S
    <3> QED BY <1>1, <2>3
  <2>5. r \in [op : Puts, coll : BOOLEAN, args : Seq(S)] /\ r.args = Tail(call[c].args)
    BY <2>2, <2>4
  <2>6. r \in Calls
    BY <2>4, <2>5 DEF Calls
  <2>7. KeysOf(r) \subseteq KeysOf(call[c])
    BY <2>4, <2>5 DEF KeysOf, Alike
  <2> HIDE DEF r
  <2>8. ClientTypes'
    BY <2>1, <2>6, RequestsAreCalls DEF ClientTypes
  <2>9. OthersStay(c) /\ pc'[c] = "find" /\ call'[c] = r
    BY <2>1 DEF ClientTypes, OthersStay
  <2> QED BY <2>7, <2>8, <2>9 DEF Seen
<1>2. CASE ~(Len(call[c].args) > 1)
  BY <1>2, ReturnMoves DEF Done
<1> QED BY <1>1, <1>2

\* Nothing is touched.
LEMMA NothingTouched ==
  ASSUME UNCHANGED docs, DocTypes, OneDocument, raced \subseteq raced',
         doubled \subseteq doubled'
  PROVE  DocTypes' /\ OneDocument' /\ \A ks : Touches(ks)
BY DEF DocTypes, OneDocument, Touches

\* A client makes a call.
LEMMA CallRestInv ==
  ASSUME RestInv, NEW c \in Clients, NEW r \in Requests, Call(c, r)
  PROVE  RestInv'
<1>1. /\ pc[c] = "idle" /\ call' = [call EXCEPT ![c] = r] /\ pc' = [pc EXCEPT ![c] = "find"]
      /\ raced' = raced \cup UNION {KeysOf(r) \cap KeysOf(call[d]) : d \in Clients \ {c}}
      /\ UNCHANGED <<docs, modified, doubled>>
  BY DEF Call
<1>2. ClientTypes'
  BY <1>1, RequestsAreCalls DEF RestInv, ClientTypes
<1>3. DocTypes' /\ OneDocument' /\ Touches({}) /\ raced \subseteq raced'
  BY <1>1, NothingTouched DEF RestInv
<1>4. OthersStay(c) /\ call'[c] = r /\ pc'[c] = "find"
  BY <1>1 DEF RestInv, ClientTypes, OthersStay
<1>5. RaceInv'
  <2> SUFFICES ASSUME NEW a \in Clients, NEW b \in Clients, a # b
               PROVE  KeysOf(call'[a]) \cap KeysOf(call'[b]) \subseteq raced'
    BY DEF RaceInv
  <2>1. \A d \in Clients \ {c} : KeysOf(r) \cap KeysOf(call[d]) \subseteq raced'
    BY <1>1
  <2>2. \A d \in Clients \ {c} : call'[d] = call[d]
    BY <1>4 DEF OthersStay
  <2>3. CASE a = c
    BY <2>1, <2>2, <2>3, <1>4
  <2>4. CASE b = c
    BY <2>1, <2>2, <2>4, <1>4
  <2>5. CASE a # c /\ b # c
    BY <2>2, <2>5, <1>3 DEF RestInv, RaceInv
  <2> QED BY <2>3, <2>4, <2>5
<1>6. ASSUME NEW e \in Clients PROVE Seen(e)'
  <2>1. CASE e = c
    BY <2>1, <1>4 DEF Seen
  <2>2. CASE e # c
    <3>1. Alike({}) = {}
      BY DEF Alike
    <3> QED BY <2>2, <3>1, <1>3, <1>4, SeenFrame DEF RestInv, SeenInv, OthersStay
  <2> QED BY <2>1, <2>2
<1> QED BY <1>2, <1>3, <1>5, <1>6 DEF RestInv, SeenInv

\* checkDataExisted: what it finds is what its client has seen.
LEMMA CheckRestInv ==
  ASSUME RestInv, NEW c \in Clients, CheckDataExisted(c)
  PROVE  RestInv'
<1>1. pc[c] = "find" /\ call[c].op \in Puts /\ UNCHANGED <<docs, raced, doubled>>
  BY DEF CheckDataExisted
<1>2. PICK k : k = Arg(c).key
  OBVIOUS
<1>3. DocTypes' /\ OneDocument' /\ Touches({k})
  BY <1>1, NothingTouched DEF RestInv
<1>4. CASE Return(c, TRUE)
  BY <1>1, <1>2, <1>3, <1>4, ReturnMoves, ClientStep DEF RestInv
<1>5. ASSUME NEW at \in {"update", "insert"}, pc' = [pc EXCEPT ![c] = at],
             UNCHANGED <<call, modified>>,
             at = "update" <=> Matching(Arg(c).key, call[c].coll) # {}
      PROVE  RestInv'
  <2>1. ClientTypes' /\ OthersStay(c) /\ pc'[c] = at
    BY <1>1, <1>5 DEF RestInv, ClientTypes, OthersStay
  <2>2. Arg(c)' = Arg(c) /\ (Matching(Arg(c).key, call[c].coll))' = Matching(Arg(c).key, call[c].coll)
    BY <1>1, <1>5 DEF Arg, Matching
  <2>3. call[c].op \notin Patching
    BY <1>1 DEF Puts, Patching
  <2>4. Seen(c)'
    BY <1>5, <2>1, <2>2, <2>3 DEF Seen
  <2> QED BY <1>1, <1>2, <1>3, <1>5, <2>1, <2>4, ClientStep
<1> QED BY <1>4, <1>5 DEF CheckDataExisted

\* What is put carries the key of its filter.
LEMMA PutKeeps ==
  ASSUME NEW a \in [key : Keys, data : Data], NEW coll
  PROVE  a \in What /\ KeepsTo(a, a.key, coll)
BY DEF What, KeepsTo, SameKey

\* An update by a call, whether its answer comes or not.
LEMMA UpdateDocs ==
  ASSUME RestInv, NEW c \in Clients, pc[c] # "idle", NEW k, k = Arg(c).key, UNCHANGED raced,
         NEW coll, NEW what \in What, KeepsTo(what, k, coll), UpdateOne(k, coll, what)
  PROVE  DocTypes' /\ OneDocument' /\ Touches({k})
<1>1. k \in Keys
  BY Working DEF RestInv
<1> QED BY <1>1, UpdateDoc DEF RestInv

\* An insert by a put: nobody else has inserted the key since it was looked for.
LEMMA InsertDocs ==
  ASSUME RestInv, NEW c \in Clients, pc[c] = "insert", NEW k, k = Arg(c).key, UNCHANGED <<raced, doubled>>,
         NEW data \in Data, InsertOne(k, data)
  PROVE  DocTypes' /\ OneDocument' /\ Touches({k})
<1>1. k \in Keys
  BY Working DEF RestInv
<1>2. k \in raced' \cup doubled' \/ \A d \in docs : d.key # k
  <2> SUFFICES ASSUME k \notin raced, NEW d \in docs PROVE d.key # k
    OBVIOUS
  <2>1. Matching(k, call[c].coll) = {}
    BY DEF RestInv, SeenInv, Seen
  <2> QED BY <2>1 DEF Matching, SameKey
<1> QED BY <1>1, <1>2, InsertDoc DEF RestInv

\* The update of a put keeps the invariant.
LEMMA UpdateRestInv ==
  ASSUME RestInv, NEW c \in Clients, Update(c)
  PROVE  RestInv'
<1>1. PICK a : a = Arg(c)
  OBVIOUS
<1>2. PICK coll : coll = Collated(c)
  OBVIOUS
<1>3. /\ pc[c] = "update" /\ call[c].op \in Puts /\ UpdateOne(a.key, coll, a)
      /\ Done(c) /\ UNCHANGED raced
  BY <1>1, <1>2 DEF Update
<1>4. a \in What /\ KeepsTo(a, a.key, coll)
  BY <1>1, <1>3, Working, PutKeeps DEF RestInv
<1>5. DocTypes' /\ OneDocument' /\ Touches({a.key})
  BY <1>1, <1>3, <1>4, UpdateDocs
<1>6. ClientTypes' /\ OthersStay(c) /\ KeysOf(call'[c]) \subseteq KeysOf(call[c]) /\ Seen(c)'
  BY <1>3, DoneMoves DEF RestInv
<1> QED BY <1>1, <1>3, <1>5, <1>6, ClientStep

\* The insert of a put keeps the invariant.
LEMMA InsertRestInv ==
  ASSUME RestInv, NEW c \in Clients, Insert(c)
  PROVE  RestInv'
<1>1. PICK a : a = Arg(c)
  OBVIOUS
<1>2. pc[c] = "insert" /\ InsertOne(a.key, a.data) /\ Done(c) /\ UNCHANGED <<raced, doubled>>
  BY <1>1 DEF Insert
<1>3. call[c].op \in Puts
  BY <1>2 DEF RestInv, ClientTypes
<1>4. a.data \in Data
  BY <1>1, <1>2, <1>3, Working DEF RestInv
<1>5. DocTypes' /\ OneDocument' /\ Touches({a.key})
  BY <1>1, <1>2, <1>4, InsertDocs
<1>6. ClientTypes' /\ OthersStay(c) /\ KeysOf(call'[c]) \subseteq KeysOf(call[c]) /\ Seen(c)'
  BY <1>2, <1>3, DoneMoves DEF RestInv
<1> QED BY <1>1, <1>2, <1>5, <1>6, ClientStep

\* A patched document is a document again.
LEMMA PatchedType ==
  ASSUME NEW data \in Data, NEW patch \in Patches
  PROVE  Patched(data, patch) \in Data
BY DEF Patched, Data, Patches

\* What a patch is applied to is a document.
LEMMA OriginalType ==
  ASSUME NEW c \in Clients, NEW data \in Data
  PROVE  Original(c, data) \in Data
BY RequestAssumption, RequestsAreCalls DEF Original, NoData, What

\* getOrigData: what is to be written is the patch of the document that was found,
\* if there was one.
LEMMA OrigRestInv ==
  ASSUME RestInv, NEW c \in Clients, GetOrigData(c)
  PROVE  RestInv'
<1>1. PICK a : a = Arg(c)
  OBVIOUS
<1>2. PICK found : found = Matching(a.key, call[c].coll)
  OBVIOUS
<1>3. pc[c] = "find" /\ call[c].op \in Patching /\ UNCHANGED <<docs, raced, doubled>>
  BY DEF GetOrigData
<1>4. DocTypes' /\ OneDocument' /\ Touches({a.key})
  BY <1>3, NothingTouched DEF RestInv
<1>5. CASE Return(c, FALSE)
  BY <1>1, <1>3, <1>4, <1>5, ReturnMoves, ClientStep DEF RestInv
<1>6. ASSUME NEW d \in IF found = {} THEN {NoData} ELSE found,
             modified' = [modified EXCEPT ![c] = Modified(c, d)],
             pc' = [pc EXCEPT ![c] = "update"], UNCHANGED call
      PROVE  RestInv'
  <2>1. /\ d.data \in Data /\ d.key \in Keys \cup {None}
        /\ d.key \in Keys => SameKey(d.key, a.key, call[c].coll)
    <3>1. CASE found = {}
      <4>1. d = NoData
        BY <1>6, <3>1
      <4>2. NoData.key = None /\ NoData.data \in Data
        BY RequestsAreCalls DEF NoData, What
      <4> QED BY <4>1, <4>2, RequestAssumption
    <3>2. CASE found # {}
      <4>1. d \in docs /\ SameKey(d.key, a.key, call[c].coll)
        BY <1>2, <1>6, <3>2 DEF Matching
      <4> QED BY <4>1 DEF RestInv, DocTypes, Doc
    <3> QED BY <3>1, <3>2
  <2>2. a.data \in Patches
    BY <1>1, <1>3, Working DEF RestInv
  <2>3. Patched(Original(c, d.data), a.data) \in Data
    BY <2>1, <2>2, OriginalType, PatchedType
  <2>4. PICK what : what = Modified(c, d)
    OBVIOUS
  <2>5. what \in What /\ KeepsTo(what, a.key, call[c].coll)
    BY <1>1, <2>1, <2>3, <2>4, RequestAssumption DEF Modified, What, KeepsTo
  <2>6. ClientTypes' /\ OthersStay(c) /\ pc'[c] = "update" /\ modified'[c] = what
    BY <1>3, <1>6, <2>4, <2>5 DEF RestInv, ClientTypes, OthersStay
  <2>7. /\ Arg(c)' = a /\ (Matching(Arg(c).key, call[c].coll))' = found
        /\ \A x : Modified(c, x)' = Modified(c, x)
    BY <1>1, <1>2, <1>3, <1>6 DEF Arg, Matching, Modified, Original
  <2>8. \A x : found = {x} => d = x
    BY <1>6
  <2>9. call[c].op \notin Puts
    BY <1>3 DEF Puts, Patching
  <2>10. (KeepsTo(modified[c], a.key, call[c].coll))'
    BY <1>6, <2>5, <2>6 DEF KeepsTo, SameKey
  <2>11. Seen(c)'
    BY <1>6, <2>4, <2>6, <2>7, <2>8, <2>9, <2>10 DEF Seen
  <2> QED BY <1>1, <1>3, <1>4, <1>6, <2>6, <2>11, ClientStep
<1> QED BY <1>1, <1>2, <1>5, <1>6 DEF GetOrigData

\* The update that stores a patched document keeps the invariant.
LEMMA UpdatePatchedRestInv ==
  ASSUME RestInv, NEW c \in Clients, UpdatePatched(c)
  PROVE  RestInv'
<1>1. PICK k : k = Arg(c).key
  OBVIOUS
<1>2. PICK coll : coll = call[c].coll
  OBVIOUS
<1>3. PICK what : what = modified[c]
  OBVIOUS
<1>4. /\ pc[c] = "update" /\ call[c].op \in Patching /\ UpdateOne(k, coll, what)
      /\ Return(c, TRUE) /\ UNCHANGED raced
  BY <1>1, <1>2, <1>3 DEF UpdatePatched
<1>5. what \in What /\ KeepsTo(what, k, coll)
  BY <1>1, <1>2, <1>3, <1>4 DEF RestInv, ClientTypes, SeenInv, Seen
<1>6. DocTypes' /\ OneDocument' /\ Touches({k})
  BY <1>1, <1>4, <1>5, UpdateDocs
<1>7. ClientTypes' /\ OthersStay(c) /\ KeysOf(call'[c]) \subseteq KeysOf(call[c]) /\ Seen(c)'
  BY <1>4, ReturnMoves DEF RestInv
<1> QED BY <1>1, <1>4, <1>6, <1>7, ClientStep

\* A call that fails may have done its operation.
LEMMA FailRestInv ==
  ASSUME RestInv, NEW c \in Clients, Fail(c)
  PROVE  RestInv'
<1>1. PICK a : a = Arg(c)
  OBVIOUS
<1>2. PICK coll : coll = Collated(c)
  OBVIOUS
<1>3. PICK pcoll : pcoll = call[c].coll
  OBVIOUS
<1>4. PICK what : what = modified[c]
  OBVIOUS
<1>5. pc[c] # "idle" /\ Return(c, FALSE) /\ UNCHANGED raced
  BY DEF Fail
<1>6. /\ call[c].op \in Puts => a.data \in Data /\ a \in What /\ KeepsTo(a, a.key, coll)
      /\ pc[c] = "update" /\ call[c].op \notin Puts => what \in What /\ KeepsTo(what, a.key, pcoll)
      /\ pc[c] = "insert" => call[c].op \in Puts
  <2>1. call[c].op \in Puts => a \in [key : Keys, data : Data]
    BY <1>1, <1>5, Working DEF RestInv
  <2>2. call[c].op \in Puts \cup Patching
    BY <1>5, Working DEF RestInv, Calls
  <2>3. what \in What /\ (pc[c] = "insert" => call[c].op \in Puts)
    BY <1>4 DEF RestInv, ClientTypes
  <2>4. pc[c] = "update" /\ call[c].op \notin Puts => KeepsTo(what, a.key, pcoll)
    BY <1>1, <1>3, <1>4, <2>2 DEF RestInv, SeenInv, Seen
  <2> QED BY <2>1, <2>3, <2>4, PutKeeps
<1>7. DocTypes' /\ OneDocument' /\ Touches({a.key})
  <2>1. CASE UNCHANGED <<docs, doubled>>
    BY <2>1, <1>5, NothingTouched DEF RestInv
  <2>2. CASE call[c].op \in Puts /\ UpdateOne(a.key, coll, a)
    BY <2>2, <1>1, <1>5, <1>6, UpdateDocs
  <2>3. CASE pc[c] = "update" /\ call[c].op \notin Puts /\ UpdateOne(a.key, pcoll, what)
    BY <2>3, <1>1, <1>5, <1>6, UpdateDocs
  <2>4. CASE pc[c] = "insert" /\ InsertOne(a.key, a.data) /\ UNCHANGED doubled
    BY <2>4, <1>1, <1>5, <1>6, InsertDocs
  <2> QED BY <1>1, <1>2, <1>3, <1>4, <2>1, <2>2, <2>3, <2>4 DEF Fail
<1>8. ClientTypes' /\ OthersStay(c) /\ KeysOf(call'[c]) \subseteq KeysOf(call[c]) /\ Seen(c)'
  BY <1>5, ReturnMoves DEF RestInv
<1> QED BY <1>1, <1>5, <1>7, <1>8, ClientStep

\* A call of one operation, on keys that become raced for where somebody works on
\* them.
LEMMA OneOperation ==
  ASSUME RestInv, NEW ks, DocTypes', OneDocument', Touches(ks), UNCHANGED <<pc, call, modified>>,
         raced \subseteq raced', Alike(ks) \cap UNION {KeysOf(call[c]) : c \in Clients} \subseteq raced'
  PROVE  RestInv'
<1>1. ClientTypes' /\ RaceInv'
  BY DEF RestInv, ClientTypes, RaceInv
<1>2. ASSUME NEW c \in Clients PROVE Seen(c)'
  <2>1. pc[c] # "idle" => Arg(c).key \in raced' \/ Arg(c).key \notin Alike(ks)
    <3> SUFFICES ASSUME pc[c] # "idle", Arg(c).key \in Alike(ks) PROVE Arg(c).key \in raced'
      OBVIOUS
    <3>1. Arg(c).key \in KeysOf(call[c])
      BY Working DEF RestInv
    <3> QED BY <3>1
  <2> QED BY <2>1, SeenFrame DEF RestInv, SeenInv
<1> QED BY <1>1, <1>2 DEF RestInv, SeenInv

\* RestfulAPIDeleteOne keeps the invariant.
LEMMA DeleteOneRestInv ==
  ASSUME RestInv, NEW k \in Keys, NEW coll \in BOOLEAN, DeleteOne(k, coll)
  PROVE  RestInv'
<1>1. PICK d \in Matching(k, coll) : docs' = docs \ {d}
  BY DEF DeleteOne
<1>2. /\ UNCHANGED <<pc, call, modified, doubled>>
      /\ raced' = raced \cup (Alike({k}) \cap UNION {KeysOf(call[c]) : c \in Clients})
  BY DEF DeleteOne, Meanwhile
<1>3. d.key \in Alike({k})
  BY DEF RestInv, DocTypes, Doc, Matching, SameKey, Alike
<1>4. DocTypes' /\ OneDocument' /\ Touches({k})
  BY <1>1, <1>2, <1>3, RemoveDocs DEF RestInv
<1> QED BY <1>2, <1>4, OneOperation

\* RestfulAPIDeleteMany keeps the invariant.
LEMMA DeleteManyRestInv ==
  ASSUME RestInv, NEW ks \in SUBSET Keys, DeleteMany(ks)
  PROVE  RestInv'
<1>1. /\ UNCHANGED <<pc, call, modified, doubled>> /\ docs' = {d \in docs : d.key \notin ks}
      /\ raced' = raced \cup (Alike(ks) \cap UNION {KeysOf(call[c]) : c \in Clients})
  BY DEF DeleteMany, Meanwhile
<1>2. ks \subseteq Alike(ks)
  BY DEF Alike
<1>3. DocTypes' /\ OneDocument' /\ Touches(ks)
  BY <1>1, <1>2, RemoveDocs DEF RestInv
<1> QED BY <1>1, <1>3, OneOperation

\* RestfulAPIPullOne keeps the invariant.
LEMMA PullOneRestInv ==
  ASSUME RestInv, NEW k \in Keys, NEW coll \in BOOLEAN, NEW f \in Fields, PullOne(k, coll, f)
  PROVE  RestInv'
<1>1. PICK d \in Matching(k, coll) :
        d.data[f] \in DOMAIN pulled /\ docs' = (docs \ {d}) \cup {[d EXCEPT !.data[f] = pulled[@]]}
  BY DEF PullOne
<1>2. /\ UNCHANGED <<pc, call, modified, doubled>>
      /\ raced' = raced \cup (Alike({k}) \cap UNION {KeysOf(call[c]) : c \in Clients})
  BY DEF PullOne, Meanwhile
<1> DEFINE v == pulled[d.data[f]]
           e == [d EXCEPT !.data = [@ EXCEPT ![f] = v]]
<1>3. d \in docs /\ d \in Doc /\ d.data \in Data /\ d.key \in Alike({k})
  BY DEF RestInv, DocTypes, Doc, Matching, SameKey, Alike
<1>4. v \in Values
  BY <1>1, RequestAssumption
<1> HIDE DEF v
<1>5. [d.data EXCEPT ![f] = v] \in Data
  BY <1>3, <1>4 DEF Data
<1>6. e \in Doc /\ e.id = d.id /\ e.key = d.key
  BY <1>3, <1>5 DEF Doc
<1>7. docs' = (docs \ {d}) \cup {e}
  BY <1>1 DEF v
<1> HIDE DEF e
<1>8. DocTypes' /\ OneDocument' /\ Touches({k})
  BY <1>2, <1>3, <1>6, <1>7, ReplaceDoc DEF RestInv
<1> QED BY <1>2, <1>8, OneOperation

\* RestfulAPIPostMany keeps the invariant.
LEMMA PostManyRestInv ==
  ASSUME RestInv, NEW k \in Keys, PostMany(k, Nothing)
  PROVE  RestInv'
<1>1. /\ UNCHANGED <<pc, call, modified>> /\ InsertOne(k, Nothing)
      /\ doubled' = doubled \cup Alike({k})
      /\ raced' = raced \cup (Alike({k}) \cap UNION {KeysOf(call[c]) : c \in Clients})
  BY DEF PostMany, Meanwhile
<1>2. k \in doubled' /\ Nothing \in Data
  BY <1>1 DEF Alike, Nothing, Data
<1>3. DocTypes' /\ OneDocument' /\ Touches({k})
  BY <1>1, <1>2, InsertDoc DEF RestInv
<1> QED BY <1>1, <1>3, OneOperation

\* Every step of a client and every call of one operation.
LEMMA NextRestInv ==
  ASSUME RestInv, Next
  PROVE  RestInv'
<1>1. ASSUME NEW k \in Keys PROVE Alike({k}) \in SUBSET Keys
  BY DEF Alike
<1>2. CASE \E c \in Clients :
             \/ \E r \in Requests : Call(c, r)
             \/ CheckDataExisted(c) \/ Update(c) \/ Insert(c)
             \/ GetOrigData(c) \/ UpdatePatched(c)
             \/ Fail(c)
  BY <1>2, CallRestInv, CheckRestInv, UpdateRestInv, InsertRestInv, OrigRestInv,
     UpdatePatchedRestInv, FailRestInv
<1>3. CASE \E k \in Keys, coll \in BOOLEAN : DeleteOne(k, coll) \/ \E f \in Fields : PullOne(k, coll, f)
  BY <1>3, DeleteOneRestInv, PullOneRestInv
<1>4. CASE \E k \in Keys : PostMany(k, Nothing) \/ DeleteMany(Alike({k}))
  BY <1>1, <1>4, PostManyRestInv, DeleteManyRestInv
<1>5. CASE DeleteMany(Keys)
  BY <1>5, DeleteManyRestInv
<1> QED BY <1>2, <1>3, <1>4, <1>5 DEF Next

\* RestInv is an invariant of the REST layer.
THEOREM RestLayer == PlatformSpec => []RestInv
<1>1. PlatformInit => RestInv
  <2> SUFFICES ASSUME PlatformInit PROVE RestInv
    OBVIOUS
  <2>1. /\ docs = {} /\ pc = [c \in Clients |-> "idle"] /\ call = [c \in Clients |-> NoCall]
        /\ modified = [c \in Clients |-> NoData]
    BY DEF PlatformInit, Init, NoCalls
  <2>2. ClientTypes
    BY <2>1, RequestsAreCalls DEF ClientTypes
  <2>3. DocTypes /\ OneDocument
    BY <2>1, FS_EmptySet DEF DocTypes, OneDocument
  <2>4. KeysOf(NoCall) = {}
    BY DEF KeysOf, NoCall, Alike
  <2>5. RaceInv /\ SeenInv
    BY <2>1, <2>4 DEF RaceInv, SeenInv, Seen
  <2> QED BY <2>2, <2>3, <2>5 DEF RestInv
<1>2. RestInv /\ [PlatformNext]_allvars => RestInv'
  <2> SUFFICES ASSUME RestInv, [PlatformNext]_allvars PROVE RestInv'
    OBVIOUS
  <2>1. CASE Next
    BY <2>1, NextRestInv
  <2>2. CASE UNCHANGED vars
    BY <2>2 DEF vars, RestInv, ClientTypes, DocTypes, RaceInv, SeenInv, Seen, OneDocument,
                Arg, Matching, Modified, Original, KeepsTo
  <2> QED BY <2>1, <2>2 DEF PlatformNext, allvars
<1> QED BY <1>1, <1>2, PTL DEF PlatformSpec, allvars

\* For any clients, keys and calls: a key has two documents only when calls on it
\* overlapped, PostMany was used or an update under a collation had several
\* documents to choose from, although find and insert are two operations, either
\* may be done and yet fail, and every update rewrites the key of its document.
THEOREM NoSecondDocument == PlatformSpec => []OneDocument
<1>1. RestInv => OneDocument
  BY DEF RestInv
<1> QED BY <1>1, RestLayer, PTL

\* A client that is somewhere else after a step has made the step itself.
LEMMA WhoMoves ==
  ASSUME ClientTypes, Next, NEW c \in Clients, pc[c] # "idle", pc'[c] # pc[c]
  PROVE  \/ CheckDataExisted(c) \/ Update(c) \/ Insert(c)
         \/ GetOrigData(c) \/ UpdatePatched(c) \/ Fail(c)
<1>1. pc' # pc
  OBVIOUS
<1>2. PICK e \in Clients :
        \/ \E r \in Requests : Call(e, r)
        \/ CheckDataExisted(e) \/ Update(e) \/ Insert(e)
        \/ GetOrigData(e) \/ UpdatePatched(e) \/ Fail(e)
  BY <1>1 DEF Next, DeleteOne, PullOne, PostMany, DeleteMany
<1>3. \E at : pc' = [pc EXCEPT ![e] = at]
  BY <1>2, Zenon DEF Call, CheckDataExisted, Update, Insert, GetOrigData, UpdatePatched, Fail,
                    Done, Return
<1>4. e = c
  BY <1>3 DEF ClientTypes
<1> QED BY <1>2, <1>4 DEF Call

\* A document that was put is there under the key it was put with.
LEMMA StoredStep ==
  ASSUME RestInv, Next
  PROVE  StoredWhenPut
<1> SUFFICES ASSUME NEW c \in Clients, pc[c] # "idle", pc'[c] = "idle",
                    ret'.ok, ret'.op \in Puts \ {"PutOneNotUpdate"},
                    ret'.op = "PutMany" => ~ret'.coll, ret'.put.key \notin raced
             PROVE  \E d \in docs' : /\ d.key = ret'.put.key
                                     /\ \A f \in Fields : ret'.put.data[f] # None
                                                          => d.data[f] = ret'.put.data[f]
  BY DEF StoredWhenPut
<1>1. PICK a : a = Arg(c)
  OBVIOUS
<1>2. ASSUME NEW ok, Return(c, ok)
      PROVE  ret' = [op |-> call[c].op, coll |-> call[c].coll, put |-> a, ok |-> ok]
  BY <1>1, <1>2 DEF Return
<1>3. \/ CheckDataExisted(c) \/ Update(c) \/ Insert(c)
      \/ GetOrigData(c) \/ UpdatePatched(c) \/ Fail(c)
  BY WhoMoves DEF RestInv
<1>4. call[c].op \in Puts => a.data \in Data /\ a.key \in Keys
  BY <1>1, Working DEF RestInv
<1>5. CASE Update(c)
  <2>1. /\ pc[c] = "update" /\ call[c].op \in Puts /\ UpdateOne(a.key, Collated(c), a)
        /\ Return(c, TRUE)
    BY <1>5, <1>1 DEF Update, Done, RestInv, ClientTypes
  <2>2. ret' = [op |-> call[c].op, coll |-> call[c].coll, put |-> a, ok |-> TRUE]
    BY <1>2, <2>1
  <2>3. call[c].coll \in BOOLEAN /\ call[c].op \in Puts
    BY <2>1, Working DEF RestInv, Calls
  <2>4. Collated(c) = call[c].coll
    BY <2>2, <2>3 DEF Collated
  <2>5. Matching(a.key, call[c].coll) # {}
    BY <1>1, <2>1, <2>2 DEF RestInv, SeenInv, Seen
  <2>6. PICK d \in Matching(a.key, call[c].coll) : docs' = (docs \ {d}) \cup {Set(d, a)}
    BY <2>1, <2>4, <2>5 DEF UpdateOne
  <2>7. d \in Doc
    BY <2>6 DEF Matching, RestInv, DocTypes
  <2>8. /\ Set(d, a).key = a.key
        /\ \A f \in Fields : a.data[f] # None => Set(d, a).data[f] = a.data[f]
    BY <1>4, <2>1, <2>7, RequestAssumption DEF Set, Doc
  <2> QED BY <2>2, <2>6, <2>7, <2>8
<1>6. CASE Insert(c)
  <2>1. InsertOne(a.key, a.data) /\ Return(c, TRUE)
    BY <1>6, <1>1 DEF Insert, Done, RestInv, ClientTypes
  <2>2. ret' = [op |-> call[c].op, coll |-> call[c].coll, put |-> a, ok |-> TRUE]
    BY <1>2, <2>1
  <2>3. [id |-> FreshId, key |-> a.key, data |-> a.data] \in docs'
    BY <2>1 DEF InsertOne
  <2> QED BY <2>2, <2>3
<1>7. CASE CheckDataExisted(c)
  <2>1. Return(c, TRUE) /\ call[c].op = "PutOneNotUpdate"
    BY <1>7 DEF CheckDataExisted, RestInv, ClientTypes
  <2>2. ret' = [op |-> call[c].op, coll |-> call[c].coll, put |-> a, ok |-> TRUE]
    BY <1>2, <2>1
  <2> QED BY <2>1, <2>2
<1>8. CASE UpdatePatched(c)
  <2>1. Return(c, TRUE) /\ call[c].op \in Patching
    BY <1>8 DEF UpdatePatched
  <2>2. ret' = [op |-> call[c].op, coll |-> call[c].coll, put |-> a, ok |-> TRUE]
    BY <1>2, <2>1
  <2> QED BY <2>1, <2>2 DEF Puts, Patching
<1>9. CASE GetOrigData(c) \/ Fail(c)
  <2>1. Return(c, FALSE)
    BY <1>9 DEF GetOrigData, Fail, RestInv, ClientTypes
  <2>2. ret' = [op |-> call[c].op, coll |-> call[c].coll, put |-> a, ok |-> FALSE]
    BY <1>2, <2>1
  <2> QED BY <2>2
<1> QED BY <1>3, <1>5, <1>6, <1>7, <1>8, <1>9

\* A put that answers without error is stored, unless its key was raced for: what
\* was found before the update is still there.
THEOREM PutsAreStored == PlatformSpec => PutIsStored
<1>1. RestInv /\ [PlatformNext]_allvars => [StoredWhenPut]_vars
  BY StoredStep DEF PlatformNext, allvars
<1> QED BY <1>1, RestLayer, PTL DEF PlatformSpec, PutIsStored, allvars

\* A patch that was not raced for writes back the document it was made from, so
\* the key and the fields it does not name keep their values.
LEMMA ChangedStep ==
  ASSUME RestInv, Next
  PROVE  ChangedAsNamed
<1> SUFFICES ASSUME NEW c \in Clients, call[c].op \in Patching, pc[c] = "update", pc'[c] = "idle",
                    Arg(c).key \notin raced,
                    Cardinality(Matching(Arg(c).key, call[c].coll)) = 1,
                    NEW d \in docs, NEW e \in docs', d.id = e.id
             PROVE  /\ e.key = d.key
                    /\ \A f \in Fields :
                         /\ Arg(c).data[f] = None
                         /\ call[c].op = "JSONPatchExtend" => Original(c, d.data)[f] = None
                         => e.data[f] = d.data[f]
  BY DEF ChangedAsNamed
<1> DEFINE M == Matching(Arg(c).key, call[c].coll)
<1>1. \/ CheckDataExisted(c) \/ Update(c) \/ Insert(c)
      \/ GetOrigData(c) \/ UpdatePatched(c) \/ Fail(c)
  BY WhoMoves DEF RestInv
<1>2. call[c].op \notin Puts
  BY DEF Puts, Patching
<1>3. UpdateOne(Arg(c).key, call[c].coll, modified[c]) \/ UNCHANGED docs
  BY <1>1, <1>2 DEF CheckDataExisted, Update, Insert, GetOrigData, UpdatePatched, Fail
<1>4. CASE UNCHANGED docs
  BY <1>4 DEF RestInv, DocTypes
<1>5. CASE UpdateOne(Arg(c).key, call[c].coll, modified[c])
  <2>1. PICK m : M = {m}
    <3>1. IsFiniteSet(M)
      BY FS_Subset DEF Matching, RestInv, DocTypes
    <3> QED BY <3>1, FS_Singleton
  <2>2. m \in docs /\ m \in Doc
    BY <2>1 DEF Matching, RestInv, DocTypes
  <2>3. docs' = (docs \ {m}) \cup {Set(m, modified[c])}
    BY <1>5, <2>1 DEF UpdateOne
  <2>4. modified[c] = Modified(c, m)
    BY <2>1 DEF RestInv, SeenInv, Seen
  <2>5. /\ Set(m, modified[c]).id = m.id /\ m.data \in Data /\ Set(m, modified[c]).key = m.key
        /\ \A f \in Fields : Set(m, modified[c]).data[f] =
             IF modified[c].data[f] = None THEN m.data[f] ELSE modified[c].data[f]
    BY <2>2, <2>4 DEF Set, Doc, Modified
  <2>6. CASE d = m
    <3>1. e = Set(m, modified[c])
      BY <2>2, <2>3, <2>5, <2>6 DEF RestInv, DocTypes
    <3>2. \A f \in Fields : Arg(c).data[f] = None => modified[c].data[f] = Original(c, m.data)[f]
      BY <2>4 DEF Patched, Modified
    <3>3. call[c].op # "JSONPatchExtend" => Original(c, m.data) = m.data
      BY DEF Original
    <3> QED BY <2>5, <2>6, <3>1, <3>2, <3>3
  <2>7. CASE d # m
    <3>1. e # Set(m, modified[c])
      BY <2>2, <2>5, <2>7 DEF RestInv, DocTypes
    <3> QED BY <2>3, <3>1 DEF RestInv, DocTypes
  <2> QED BY <2>6, <2>7
<1> QED BY <1>3, <1>4, <1>5

\* For any documents and patches: a patch changes only the fields it names.
THEOREM PatchesChangeWhatTheyName == PlatformSpec => PatchChangesWhatItNames
<1>1. RestInv /\ [PlatformNext]_allvars => [ChangedAsNamed]_vars
  BY ChangedStep DEF PlatformNext, allvars
<1> QED BY <1>1, RestLayer, PTL DEF PlatformSpec, PatchChangesWhatItNames, allvars
=============================================================================
