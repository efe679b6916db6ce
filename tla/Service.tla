------------------------------ MODULE Service ------------------------------
(***************************************************************************)
(* What lib/util gives every network function around its own work: the log *)
(* file (logger.go), the gin engine that logs, recovers and counts every   *)
(* request (logger.go, middleware.go), the metrics (metrics.go, sbi, nas,  *)
(* ngap) and the server that shows them (Server.go, httpwrapper.go).       *)
(*                                                                         *)
(* The counter vectors and the enabled flags are globals of the process;   *)
(* the NFs of one process (test/nfs_setup.go) share them, and the last one *)
(* that calls Init has them.  A request is worked on by its own goroutine, *)
(* and so is every metrics server.                                         *)
(***************************************************************************)
EXTENDS Integers, Sequences, FiniteSets

CONSTANTS
    NF,            \* the network functions of the process
    Path(_),       \* the log path an NF is given: [dir, name]
    Groups(_),     \* its metrics: custom collectors ("business"), sbi, nas, ngap
    Scheme(_),     \* the scheme of its metrics server
    Load(_),       \* the requests it is sent: what the handler does, the claims
    MaxEvents      \* bound: requests, messages and starts of the process

Nil == "nil"
ASSUME NFAssumption == Nil \notin NF
ASSUME BoundAssumption == MaxEvents \in Nat

VARIABLES
    main,      \* main[nf]: where the goroutine of the NF is
    hook,      \* hook[nf]: the file the FileHook of its logger writes to
    files,     \* files[f]: the lines of a log file
    left,      \* left[nf]: the groups Init has still to do
    vec,       \* vec[g]: the NF whose Init made the vectors of g last, or Nil
    enabled,   \* the groups whose flag is set
    reg,       \* reg[nf]: the groups in its registry
    counts,    \* counts[nf]: the increments of the vectors of its registry, each
               \* with its group and label
    server,    \* server[nf]: the goroutine of startServer
    closing,   \* closing[nf]: Shutdown was called
    scrape,    \* scrape[nf]: a GET /metrics is being answered
    wg,        \* wg[nf]: the WaitGroup given to Run
    req,       \* req[nf]: the request it is working on
    sent,      \* how many requests and messages there were
    boot,      \* how often the process was started
    finished   \* the requests that reached the end of the engine, with their status

servicevars == <<main, hook, files, left, vec, enabled, reg, counts, server, closing,
                 scrape, wg, req, sent, boot, finished>>

logvars == <<hook, files>>
metricvars == <<left, vec, enabled, reg, counts>>
servervars == <<server, closing, scrape, wg>>
reqvars == <<req, sent, finished>>

\* The groups whose vectors are globals; custom collectors are the NF's own.
Vectors == {"sbi", "nas", "ngap"}

\* What Init of metrics has to do for an NF, in its order.
InitOrder(nf) ==
    LET Has(g) == IF g \in Groups(nf) THEN <<g>> ELSE <<>>
    IN  Has("business") \o Has("sbi") \o Has("nas") \o Has("ngap")

NoRequest == [id |-> 0]
NoFile == [dir |-> "", name |-> ""]

\* The memory of a process that has just been started.
Fresh(hk, lf, vc, en, rg, ct, sv, cl, sc, w, rq) ==
    /\ hk = [nf \in NF |-> NoFile]
    /\ lf = [nf \in NF |-> InitOrder(nf)]
    /\ vc = [g \in Vectors |-> Nil] /\ en = {} /\ rg = [nf \in NF |-> {}]
    /\ ct = [nf \in NF \cup {Nil} |-> <<>>]
    /\ sv = [nf \in NF |-> "none"] /\ cl = [nf \in NF |-> FALSE]
    /\ sc = [nf \in NF |-> FALSE] /\ w = [nf \in NF |-> 0] /\ rq = [nf \in NF |-> NoRequest]

\* A name without a directory is put into ./log/.
Placed(p) == [p EXCEPT !.dir = IF @ = "" THEN "./log/" ELSE @]

\* createLogFile: where the file is, or NoFile when the path has no name or a
\* directory, an owner or the file cannot be had.
createLogFile(p) == {NoFile} \cup IF p.name = "" THEN {} ELSE {Placed(p)}

\* NewFileHook: the file is opened, or the error is returned.
NewFileHook(f) == {NoFile, f}

Started(at, n) ==
    /\ main = [nf \in NF |-> at] /\ boot = n
    /\ Fresh(hook, left, vec, enabled, reg, counts, server, closing, scrape, wg, req)
    /\ files = [f \in {Placed(Path(nf)) : nf \in NF} |-> <<>>]
    /\ sent = 0 /\ finished = {}

ServiceInit == Started("log", 1)

\* No NF runs in this behaviour.
NoService == Started("done", MaxEvents)

-----------------------------------------------------------------------------
(* The goroutine of an NF.  Its order of calls is external.                *)

\* Mutant of LogFileHook: O_TRUNC in the place of O_APPEND.
MutLogFileHook(nf) ==
    /\ main[nf] = "log"
    /\ \E f \in UNION {NewFileHook(p) : p \in createLogFile(Path(nf))} :
         /\ hook' = [hook EXCEPT ![nf] = f]
         /\ files' = IF f = NoFile THEN files ELSE [files EXCEPT ![f] = <<>>]
         /\ main' = [main EXCEPT ![nf] = IF f = NoFile THEN "done" ELSE "init"]
    /\ UNCHANGED <<metricvars, servervars, reqvars, boot>>

\* LogFileHook: the file is opened to append to it, or the NF
\* does not start.
LogFileHook(nf) ==
    /\ main[nf] = "log"
    /\ \E f \in UNION {NewFileHook(p) : p \in createLogFile(Path(nf))} :
         /\ hook' = [hook EXCEPT ![nf] = f]
         /\ main' = [main EXCEPT ![nf] = IF f = NoFile THEN "done" ELSE "init"]
    /\ UNCHANGED <<files, metricvars, servervars, reqvars, boot>>

\* Init of metrics, the next group: its vectors are made and become the global
\* ones.  Custom collectors exist already: their flag is set.
MakeVectors(nf) ==
    /\ main[nf] = "init" /\ left[nf] # <<>>
    /\ LET g == Head(left[nf])
       IN  IF g = "business"
           THEN enabled' = enabled \cup {g} /\ UNCHANGED vec
           ELSE vec' = [vec EXCEPT ![g] = nf] /\ UNCHANGED enabled
    /\ main' = [main EXCEPT ![nf] = "register"]
    /\ UNCHANGED <<logvars, left, reg, counts, servervars, reqvars, boot>>

\* Mutant of Register: the collectors are not registered when another NF has
\* enabled the group already.
MutRegister(nf) ==
    /\ main[nf] = "register"
    /\ LET g == Head(left[nf])
       IN  /\ reg' = IF g \in enabled THEN reg ELSE [reg EXCEPT ![nf] = @ \cup {g}]
           /\ enabled' = enabled \cup {g}
    /\ left' = [left EXCEPT ![nf] = Tail(@)]
    /\ main' = [main EXCEPT ![nf] = "init"]
    /\ UNCHANGED <<logvars, vec, counts, servervars, reqvars, boot>>

\* They are registered, and the flag of the group is set.
Register(nf) ==
    /\ main[nf] = "register"
    /\ reg' = [reg EXCEPT ![nf] = @ \cup {Head(left[nf])}]
    /\ enabled' = enabled \cup {Head(left[nf])}
    /\ left' = [left EXCEPT ![nf] = Tail(@)]
    /\ main' = [main EXCEPT ![nf] = "init"]
    /\ UNCHANGED <<logvars, vec, counts, servervars, reqvars, boot>>

\* NewHttp2Server: a server or, when the key log cannot be opened, none.
NewHttp2Server == {"made", "done"}

\* The rest of NewServer.  When it fails, the NF does not run, and the globals
\* stay as Init has left them.
NewServer(nf) ==
    /\ main[nf] = "init" /\ left[nf] = <<>>
    /\ \E next \in NewHttp2Server : main' = [main EXCEPT ![nf] = next]
    /\ UNCHANGED <<logvars, metricvars, servervars, reqvars, boot>>

\* Mutant of Run: the WaitGroup is not told of the goroutine before it runs.
MutRun(nf) ==
    /\ main[nf] = "made"
    /\ server' = [server EXCEPT ![nf] = "started"]
    /\ main' = [main EXCEPT ![nf] = "serve"]
    /\ UNCHANGED <<logvars, metricvars, wg, closing, scrape, reqvars, boot>>

Run(nf) ==
    /\ main[nf] = "made"
    /\ wg' = [wg EXCEPT ![nf] = @ + 1]
    /\ server' = [server EXCEPT ![nf] = "started"]
    /\ main' = [main EXCEPT ![nf] = "serve"]
    /\ UNCHANGED <<logvars, metricvars, closing, scrape, reqvars, boot>>

\* Stop calls Shutdown: the listener, if there is one yet, is closed.
Stop(nf) ==
    /\ main[nf] = "serve"
    /\ closing' = [closing EXCEPT ![nf] = TRUE]
    /\ main' = [main EXCEPT ![nf] = "stop"]
    /\ UNCHANGED <<logvars, metricvars, server, scrape, wg, reqvars, boot>>

\* Mutant of Stopped: Shutdown is given no deadline.
MutStopped(nf) ==
    /\ main[nf] = "stop" /\ ~scrape[nf]
    /\ main' = [main EXCEPT ![nf] = "wait"]
    /\ UNCHANGED <<logvars, metricvars, servervars, reqvars, boot>>

\* Shutdown returns when no request is left, or after defaultShutdownTimeout.
Stopped(nf) ==
    /\ main[nf] = "stop"
    /\ main' = [main EXCEPT ![nf] = "wait"]
    /\ UNCHANGED <<logvars, metricvars, servervars, reqvars, boot>>

\* wg.Wait of the caller.
Wait(nf) ==
    /\ main[nf] = "wait" /\ wg[nf] = 0
    /\ main' = [main EXCEPT ![nf] = "done"]
    /\ UNCHANGED <<logvars, metricvars, servervars, reqvars, boot>>

-----------------------------------------------------------------------------
(* The goroutine of the metrics server.                                    *)

\* startServer up to the listener: it listens, or ends at once because it is
\* closed already, because of the scheme or because the address is in use.
startServer(nf) ==
    /\ server[nf] = "started"
    /\ \/ /\ ~closing[nf] /\ Scheme(nf) \in {"http", "https"}
          /\ server' = [server EXCEPT ![nf] = "listening"]
       \/ server' = [server EXCEPT ![nf] = "returned"]
    /\ UNCHANGED <<main, logvars, metricvars, closing, scrape, wg, reqvars, boot>>

\* The closed listener makes ListenAndServe return.
ServerClosed(nf) ==
    /\ server[nf] = "listening" /\ closing[nf]
    /\ server' = [server EXCEPT ![nf] = "returned"]
    /\ UNCHANGED <<main, logvars, metricvars, closing, scrape, wg, reqvars, boot>>

\* The deferred wg.Done.
ServerDone(nf) ==
    /\ server[nf] = "returned"
    /\ wg' = [wg EXCEPT ![nf] = @ - 1]
    /\ server' = [server EXCEPT ![nf] = "ended"]
    /\ UNCHANGED <<main, logvars, metricvars, closing, scrape, reqvars, boot>>

\* A GET /metrics begins and, unless its client hangs, ends.
Scrape(nf) ==
    /\ scrape[nf] \/ (server[nf] = "listening" /\ ~closing[nf])
    /\ scrape' = [scrape EXCEPT ![nf] = ~@]
    /\ UNCHANGED <<main, logvars, metricvars, server, closing, wg, reqvars, boot>>

-----------------------------------------------------------------------------
(* Requests and messages.                                                  *)

\* One more of a label in the vectors of group g, if the group is enabled.
Counted(g, label) ==
    IF g \in enabled THEN [counts EXCEPT ![vec[g]] = Append(@, <<g, label>>)] ELSE counts

\* A message received or sent, of a group g.
Message(g) ==
    /\ \E nf \in NF : main[nf] = "serve"
    /\ sent + boot < MaxEvents /\ sent' = sent + 1
    /\ counts' = Counted(g, sent')
    /\ UNCHANGED <<main, logvars, left, vec, enabled, reg, servervars, req, finished, boot>>

\* IncrMetricsRcvNasMsg, IncrMetricsSentNasMsgs.
IncrNasMsg == Message("nas")

\* IncrMetricsRcvMsg, IncrMetricsSentMsg of ngap.
IncrNgapMsg == Message("ngap")

\* Mutant of Chain: the extra middleware is put behind the others.
MutChain == <<"ginToLogrus", "ginRecover", "InboundMetrics">>

\* NewGinWithLogrus: the middleware in the order it is entered.
Chain == <<"InboundMetrics", "ginToLogrus", "ginRecover">>

\* What a handler does: it answers; panics before or after it has answered;
\* finds the connection broken.  The status of the gin writer is 200 by then.
Handlers == {"answer", "panic", "latePanic", "brokenPipe"}

\* A request goes down the chain to its handler, which runs.  The claims that an
\* authorisation has left in the context, if any, may name no user.
Request(nf) ==
    /\ main[nf] = "serve" /\ req[nf] = NoRequest /\ sent + boot < MaxEvents
    /\ sent' = sent + 1
    /\ \E does \in Handlers, claims \in {"user", "noUser"} :
         /\ <<does, claims>> \in Load(nf)
         /\ req' = [req EXCEPT ![nf] =
                      [id |-> sent', does |-> does, status |-> 200, claims |-> claims,
                       panics |-> does # "answer", at |-> Len(Chain)]]
    /\ UNCHANGED <<main, logvars, metricvars, servervars, boot, finished>>

\* FileHook.Fire: a line at the end of the hooked file.
Fire(nf, line) == [files EXCEPT ![hook[nf]] = Append(@, line)]

(* What is behind c.Next() in a middleware, on the way back up the chain.  *)
(* A panic goes through it, and only ginRecover stops it.                  *)
Behind(nf, name) == req[nf] # NoRequest /\ req[nf].at > 0 /\ Chain[req[nf].at] = name

Up(nf, r) ==
    /\ req' = [req EXCEPT ![nf] = [r EXCEPT !.at = @ - 1]]
    /\ UNCHANGED <<main, hook, left, vec, enabled, reg, servervars, sent, boot, finished>>

\* A panic is logged and answered with 500, unless the connection is broken or
\* the handler has answered.
ginRecover(nf) ==
    LET r == req[nf]
    IN  /\ Behind(nf, "ginRecover")
        /\ files' = IF r.panics THEN Fire(nf, [boot |-> boot, id |-> r.id, panic |-> r.does])
                    ELSE files
        /\ Up(nf, [r EXCEPT !.panics = FALSE, !.status = IF r.does = "panic" THEN 500 ELSE @])
        /\ UNCHANGED counts

\* The access log.  Claims whose email is no string make it panic itself.
ginToLogrus(nf) ==
    LET r == req[nf]
        logs == ~r.panics /\ r.claims # "noUser"
    IN  /\ Behind(nf, "ginToLogrus")
        /\ files' = IF logs THEN Fire(nf, [boot |-> boot, id |-> r.id, status |-> r.status])
                    ELSE files
        /\ Up(nf, [r EXCEPT !.panics = ~logs])
        /\ UNCHANGED counts

\* Mutant of InboundMetrics: the request is counted before c.Next() too.
MutInboundMetrics(nf) ==
    LET r == req[nf]
        once == Counted("sbi", <<r.id, r.status>>)
    IN  /\ Behind(nf, "InboundMetrics")
        /\ counts' = IF r.panics \/ "sbi" \notin enabled THEN once
                     ELSE [once EXCEPT ![vec["sbi"]] = Append(@, <<"sbi", <<r.id, r.status>>>>)]
        /\ Up(nf, r)
        /\ UNCHANGED files

\* The counters, and the time, of a request: not of one that panics here.
InboundMetrics(nf) ==
    LET r == req[nf]
    IN  /\ Behind(nf, "InboundMetrics")
        /\ counts' = IF r.panics THEN counts ELSE Counted("sbi", <<r.id, r.status>>)
        /\ Up(nf, r)
        /\ UNCHANGED files

\* The request is answered; a panic that came through ends the connection.
Finish(nf) ==
    LET r == req[nf]
    IN  /\ r # NoRequest /\ r.at = 0
        /\ finished' = finished \cup {[boot |-> boot, nf |-> nf, id |-> r.id, claims |-> r.claims,
             status |-> IF r.panics \/ r.does = "brokenPipe" THEN 0 ELSE r.status]}
        /\ req' = [req EXCEPT ![nf] = NoRequest]
        /\ UNCHANGED <<main, logvars, metricvars, servervars, sent, boot>>

\* The process is killed, or has ended, and is started again.
Restart ==
    /\ sent + boot < MaxEvents
    /\ boot' = boot + 1
    /\ main' = [nf \in NF |-> "log"]
    /\ Fresh(hook', left', vec', enabled', reg', counts', server', closing', scrape', wg', req')
    /\ UNCHANGED <<files, sent, finished>>

Main(nf) == \/ LogFileHook(nf) \/ MakeVectors(nf) \/ Register(nf) \/ NewServer(nf)
            \/ Run(nf) \/ Stopped(nf) \/ Wait(nf)
Middleware(nf) == ginRecover(nf) \/ ginToLogrus(nf) \/ InboundMetrics(nf)
Serve(nf) == startServer(nf) \/ ServerClosed(nf) \/ ServerDone(nf)

ServiceNext ==
    \/ \E nf \in NF : \/ Main(nf) \/ Stop(nf) \/ Serve(nf) \/ Scrape(nf)
                      \/ Request(nf) \/ Middleware(nf) \/ Finish(nf)
    \/ IncrNasMsg \/ IncrNgapMsg
    \/ Restart

\* The goroutines run.  Nobody need send a request, end a scrape or stop an NF.
ServiceFairness == \A nf \in NF : WF_servicevars(Main(nf)) /\ WF_servicevars(Serve(nf))

-----------------------------------------------------------------------------
\* Where the access line of a request that was answered is in the log of its NF,
\* and where in the counters of which NF its increments are.
AccessLines(r) ==
    {i \in DOMAIN files[Placed(Path(r.nf))] :
       LET x == files[Placed(Path(r.nf))][i]
       IN  "status" \in DOMAIN x /\ x.boot = r.boot /\ x.id = r.id}
Increments(r) ==
    UNION {{<<nf, i>> : i \in {j \in DOMAIN counts[nf] :
                                 counts[nf][j][1] = "sbi" /\ counts[nf][j][2][1] = r.id}} : nf \in NF}

\* Every request has exactly one line in the log, which keeps it over restarts,
\* and exactly one increment in the process that answered it, both with the
\* status its client got, if it got one, whatever its handler did.  (What
\* becomes of one whose claims name no user: EveryRequestCounted.)
EveryRequestAccounted ==
    \A r \in finished : r.claims # "noUser" =>
      /\ Cardinality(AccessLines(r)) = 1
      /\ Cardinality(Increments(r)) <= 1
      /\ r.boot = boot /\ "sbi" \in Groups(r.nf) => Increments(r) # {}
      /\ \A i \in AccessLines(r) :
           LET status == files[Placed(Path(r.nf))][i].status
           IN  /\ r.status \in {0, status}
               /\ \A p \in Increments(r) : counts[p[1]][p[2]][2][2] = status

\* "InboundMetrics is a Gin middleware that counts and times each request"
\* (metrics/middleware.go:11): an NF with the metrics of its SBI has counted
\* every request that it has answered.
EveryRequestCounted ==
    \A r \in finished : r.boot = boot /\ "sbi" \in Groups(r.nf) => Increments(r) # {}

\* Nothing is counted in a vector that is not there, nor in one that is in no
\* registry, unless Init is about to register it.
CountedIsRegistered ==
    /\ counts[Nil] = <<>>
    /\ \A nf \in NF : \A i \in DOMAIN counts[nf] :
         LET g == counts[nf][i][1]
         IN  g \in reg[nf] \/ (main[nf] = "register" /\ g = Head(left[nf]))

\* When wg.Wait has returned, the metrics server is no longer there: it has been
\* told to stop before or after it listened.
WaitMeansEnded ==
    \A nf \in NF : main[nf] = "done" => server[nf] \in {"none", "ended"}

\* Stop comes to an end, also with a client that never takes its answer.
Stops ==
    \A nf \in NF : main[nf] = "stop" ~> main[nf] \in {"done", "log"}
=============================================================================
