------------------------------ MODULE AFClient ------------------------------
(***************************************************************************)
(* myScripts/af_monitoring_client.py: the application function that        *)
(* subscribes at the NEF, takes its notifications and writes two files:    *)
(* notifications.jsonl (raw), every payload, and trail.csv, the moves.     *)
(* The NEF is external: it is modelled by what subscribe, unsubscribe and  *)
(* receive_notification can see of it.                                     *)
(*                                                                         *)
(* One event loop runs everything, and between reading the body and the    *)
(* answer receive_notification awaits nothing: notifications are handled   *)
(* one after the other.  But the process may be killed between any two of  *)
(* its writes; what it wrote stays, what it remembered is gone.            *)
(***************************************************************************)
EXTENDS Integers, Sequences, FiniteSets, SequencesExt

CONSTANTS
    UEs,
    Locs,          \* locations, the pairs (tac, nrCellId)
    site_group,    \* site_group[l]: the mast of l in CELLS; "" when unknown
    Types,         \* MONITORING_TYPES, a sequence
    Bodies,        \* the notifications the NEF may send: their reports, and
                   \* whether one is larger than the buffer of the raw file
    MaxBodies,     \* bound: notifications sent
    MaxStarts,     \* bound: starts of the AF
    MaxRemovals    \* bound: how often the raw file is removed

\* A report is a location of a UE, or anything else handle_report only logs.
Reports == [type : {"LOCATION_REPORT"}, supi : UEs, loc : Locs] \cup [type : {"other"}]

Nowhere == "nowhere"   \* last_loc of a UE not heard of

ASSUME AFAssumption ==
    /\ Nowhere \notin Locs
    /\ \A l \in Locs : site_group[l] \in STRING
    /\ \A b \in Bodies : b.reports \in Seq(Reports) /\ b.large \in BOOLEAN
    /\ Types \in Seq(STRING)
    /\ MaxBodies \in Nat /\ MaxStarts \in Nat /\ MaxRemovals \in Nat

NoFile == 0
Idle == [body |-> 0, left |-> <<>>, rest |-> FALSE]

VARIABLES
    phase,      \* "down", "subscribing", "serving" or "stopping"
    todo,       \* subscribing: types left; stopping: subscriptions left
    mine,       \* _subscriptions
    handling,   \* the notification in receive_notification
    last_loc,   \* _last_loc
    last_group, \* _last_group
    raw,        \* raw[g]: the pieces written to the g-th file of that name
    path,       \* the file the name stands for now, or NoFile
    out,        \* the file the AF has open as _raw
    trail,      \* the rows of trail.csv
    subs,       \* the subscriptions at the NEF
    excused,    \* history: subscriptions the AF could not know or not remove
    sent,       \* history: how many notifications the AF was given
    acked,      \* history: those answered with 204
    seen,       \* history: seen[u]: locations of u handled by this process
    starts      \* history: how often the AF was started

afvars == <<phase, todo, mine, handling, last_loc, last_group, raw, path, out, trail,
            subs, excused, sent, acked, seen, starts>>
memory == <<mine, last_loc, last_group, seen>>
files == <<raw, path, out, trail>>
nef == <<subs, excused>>

AFInit ==
    /\ phase = "down" /\ todo = <<>> /\ mine = <<>> /\ handling = Idle
    /\ last_loc = [u \in UEs |-> Nowhere] /\ last_group = [u \in UEs |-> ""]
    /\ seen = [u \in UEs |-> <<>>]
    /\ raw = <<>> /\ path = NoFile /\ out = NoFile /\ trail = <<>>
    /\ subs = {} /\ excused = {}
    /\ sent = 0 /\ acked = {} /\ starts = 0

\* The process ends: what it remembered is gone.
Gone ==
    /\ phase' = "down" /\ todo' = <<>> /\ mine' = <<>> /\ handling' = Idle /\ out' = NoFile
    /\ last_loc' = [u \in UEs |-> Nowhere] /\ last_group' = [u \in UEs |-> ""]
    /\ seen' = [u \in UEs |-> <<>>]

-----------------------------------------------------------------------------
\* The script is run: both files are opened for appending, raw being created
\* if the name is gone.
Start ==
    /\ phase = "down" /\ starts < MaxStarts
    /\ starts' = starts + 1
    /\ phase' = "subscribing" /\ todo' = Types
    /\ IF path = NoFile
       THEN raw' = Append(raw, <<>>) /\ path' = Len(raw) + 1 /\ out' = Len(raw) + 1
       ELSE out' = path /\ UNCHANGED <<raw, path>>
    /\ UNCHANGED <<memory, handling, trail, nef, sent, acked>>

\* A subscription is named by the start and the type it was made in.  `url':
\* the answer names it by an absolute URL, which unsubscribe insists on.
Sub(url) == [start |-> starts, type |-> Head(todo), url |-> url]

\* subscribe: one POST.  The NEF may refuse it, or accept it and the answer
\* may be lost (a timeout); each is logged and the next type is tried.
Subscribe ==
    /\ phase = "subscribing" /\ todo # <<>>
    /\ todo' = Tail(todo)
    /\ \/ \E url \in BOOLEAN :
            /\ subs' = subs \cup {Sub(url)}
            /\ mine' = Append(mine, Sub(url))
            /\ excused' = IF url THEN excused ELSE excused \cup {Sub(url)}
       \/ /\ subs' = subs \cup {Sub(FALSE)}
          /\ excused' = excused \cup {Sub(FALSE)}
          /\ mine' = mine
       \/ UNCHANGED <<subs, mine, excused>>
    /\ UNCHANGED <<phase, handling, last_loc, last_group, files, sent, acked, seen, starts>>

\* lifespan reaches its yield: the server listens, however many POSTs failed.
Serve ==
    /\ phase = "subscribing" /\ todo = <<>>
    /\ phase' = "serving"
    /\ UNCHANGED <<todo, memory, handling, files, nef, sent, acked, starts>>

-----------------------------------------------------------------------------
(* receive_notification                                                     *)

\* A line of raw is one piece, or two when the payload is larger than the
\* buffer of the file object.
Piece(b, part) == [body |-> b, part |-> part]
Written(piece) == raw' = [raw EXCEPT ![out] = Append(@, piece)]

\* A subscription makes the NEF send a notification; its payload goes to raw.
Receive(b) ==
    /\ phase = "serving" /\ handling = Idle
    /\ subs # {} /\ sent < MaxBodies
    /\ sent' = sent + 1
    /\ handling' = [body |-> sent + 1, left |-> b.reports, rest |-> b.large]
    /\ Written(Piece(sent + 1, IF b.large THEN "head" ELSE "whole"))
    /\ UNCHANGED <<phase, todo, memory, path, out, trail, nef, acked, starts>>

\* The rest of a large payload.
WriteRest ==
    /\ handling # Idle /\ handling.rest
    /\ handling' = [handling EXCEPT !.rest = FALSE]
    /\ Written(Piece(handling.body, "tail"))
    /\ UNCHANGED <<phase, todo, memory, path, out, trail, nef, sent, acked, starts>>

\* What kind of move a change is: switch_kind.
Kind(u, l) ==
    CASE last_group[u] = ""                                       -> "initial"
      [] last_group[u] # "" /\ site_group[l] = last_group[u]      -> "sector"
      [] last_group[u] # "" /\ site_group[l] # last_group[u]      -> "site"

Row(u, l) == [body |-> handling.body, start |-> starts, supi |-> u, loc |-> l, kind |-> Kind(u, l)]

\* Mutant of Located: what is remembered is the last change, set at the end.
MutLocated(u, l) ==
    /\ trail' = IF last_loc[u] = l THEN trail ELSE Append(trail, Row(u, l))
    /\ last_loc' = [last_loc EXCEPT ![u] = IF @ = Nowhere THEN l ELSE @]
    /\ last_group' = [last_group EXCEPT ![u] = IF site_group[l] = "" THEN @ ELSE site_group[l]]

\* handle_report for a location.
Located(u, l) ==
    /\ trail' = IF last_loc[u] = l THEN trail ELSE Append(trail, Row(u, l))
    /\ last_loc' = [last_loc EXCEPT ![u] = l]
    /\ last_group' = [last_group EXCEPT ![u] = IF site_group[l] = "" THEN @ ELSE site_group[l]]

\* One round of the loop over reportList.
HandleReport ==
    /\ handling # Idle /\ ~handling.rest /\ handling.left # <<>>
    /\ handling' = [handling EXCEPT !.left = Tail(@)]
    /\ LET rep == Head(handling.left)
       IN  \/ /\ rep.type = "LOCATION_REPORT"
              /\ Located(rep.supi, rep.loc)
              /\ seen' = [seen EXCEPT ![rep.supi] = Append(@, rep.loc)]
           \/ /\ rep.type # "LOCATION_REPORT"
              /\ UNCHANGED <<trail, last_loc, last_group, seen>>
    /\ UNCHANGED <<phase, todo, mine, raw, path, out, nef, sent, acked, starts>>

\* Mutant of Respond: the answer is given while reports are left.
MutRespond ==
    /\ handling # Idle
    /\ handling' = Idle
    /\ acked' = acked \cup {handling.body}
    /\ UNCHANGED <<phase, todo, memory, files, nef, sent, starts>>

\* The answer 204.
Respond ==
    /\ handling # Idle /\ ~handling.rest /\ handling.left = <<>>
    /\ handling' = Idle
    /\ acked' = acked \cup {handling.body}
    /\ UNCHANGED <<phase, todo, memory, files, nef, sent, starts>>

-----------------------------------------------------------------------------
\* Mutant of Shutdown: the loop of unsubscribe starts at the second one.
MutShutdown ==
    /\ phase = "serving" /\ handling = Idle
    /\ phase' = "stopping" /\ todo' = IF mine = <<>> THEN <<>> ELSE Tail(mine)
    /\ UNCHANGED <<memory, handling, files, nef, sent, acked, starts>>

\* Ctrl-C: lifespan goes on after its yield, no request being handled.
Shutdown ==
    /\ phase = "serving" /\ handling = Idle
    /\ phase' = "stopping" /\ todo' = mine
    /\ UNCHANGED <<memory, handling, files, nef, sent, acked, starts>>

\* unsubscribe: one DELETE, or none for a name that is no absolute URL; one
\* that fails is logged and not tried again.
Unsubscribe ==
    /\ phase = "stopping" /\ todo # <<>>
    /\ todo' = Tail(todo)
    /\ \/ subs' = (IF Head(todo).url THEN subs \ {Head(todo)} ELSE subs) /\ excused' = excused
       \/ subs' = subs /\ excused' = excused \cup {Head(todo)}
    /\ UNCHANGED <<phase, memory, handling, files, sent, acked, starts>>

Stopped ==
    /\ phase = "stopping" /\ todo = <<>>
    /\ Gone
    /\ UNCHANGED <<raw, path, trail, nef, sent, acked, starts>>

\* The process is killed.
Crash ==
    /\ phase # "down"
    /\ Gone
    /\ excused' = excused \cup subs
    /\ UNCHANGED <<raw, path, trail, subs, sent, acked, starts>>

\* Someone removes the raw file, or moves it away: the AF goes on writing to it.
RemoveRaw ==
    /\ path # NoFile /\ Len(raw) <= MaxRemovals
    /\ path' = NoFile
    /\ UNCHANGED <<phase, todo, memory, handling, raw, out, trail, nef, sent, acked, starts>>

AFNext ==
    \/ Start \/ Subscribe \/ Serve
    \/ \E b \in Bodies : Receive(b)
    \/ WriteRest \/ HandleReport \/ Respond
    \/ Shutdown \/ Unsubscribe \/ Stopped
    \/ Crash \/ RemoveRaw

-----------------------------------------------------------------------------
AFTypeOK ==
    /\ phase \in {"down", "subscribing", "serving", "stopping"}
    /\ path \in 0 .. Len(raw) /\ out \in 0 .. Len(raw)
    /\ handling.body \in 0 .. sent /\ handling.left \in Seq(Reports)
    /\ acked \subseteq 1 .. sent

\* The payload of b is in one of the files, to its end.
OnDisk(b) == \E g \in DOMAIN raw : \E i \in DOMAIN raw[g] :
                raw[g][i] \in {Piece(b, "whole"), Piece(b, "tail")}

\* "raw first, so a crash mid-processing still leaves the payload on disk"
\* (af_monitoring_client.py:248): whatever is in the trail, and whatever the
\* NEF was told is received, has its whole payload in a raw file.
RawFirst == \A b \in acked \cup {trail[i].body : i \in DOMAIN trail} : OnDisk(b)

\* Where the rows are that this process wrote about u.
RowsOf(u) == {i \in DOMAIN trail : trail[i].supi = u /\ trail[i].start = starts}

\* The moves in a sequence of locations, and what each is called: compared
\* with the latest earlier location whose mast is known.
Moves(locs) == {i \in DOMAIN locs : i = 1 \/ locs[i] # locs[i - 1]}
Known(locs, n) == {i \in 1 .. n : site_group[locs[i]] # ""}
Named(locs, i) ==
    CASE Known(locs, i - 1) = {} -> "initial"
      [] Known(locs, i - 1) # {} ->
           IF site_group[locs[i]] = site_group[locs[Max(Known(locs, i - 1))]] THEN "sector" ELSE "site"

\* "append to the trail only when the location actually changed"
\* (af_monitoring_client.py:106), as far as one process can know: its rows
\* about a UE are exactly the moves in the reports it has handled, in their
\* order, whatever the notifications were split into and whoever else reported
\* between them.
TrailIsMoves == phase # "down" =>
    \A u \in UEs : \E row \in Surjection(Moves(seen[u]), RowsOf(u)) :
        \A i \in DOMAIN row :
            /\ trail[row[i]].loc = seen[u][i] /\ trail[row[i]].kind = Named(seen[u], i)
            /\ \A j \in DOMAIN row : j < i => row[j] < row[i]

\* When the AF is down, the subscriptions left at the NEF are those whose
\* answer was lost, whose name was no URL, whose DELETE failed or whose AF was
\* killed: an orderly stop removes every other one.
NoStaleSubscription == phase = "down" => subs \subseteq excused
=============================================================================
