----------------------------- MODULE Monitoring -----------------------------
(***************************************************************************)
(* The two scripts together: AFClient writes notifications.jsonl and the   *)
(* tracker follows it (tracker.py, follow and main with --tail).  What the *)
(* tracker does with a line it could parse is module Tracker's business;   *)
(* here it is added to handled.                                            *)
(***************************************************************************)
EXTENDS AFClient

VARIABLES
    from_start,   \* --from-start
    state,        \* where follow is: waiting for the file, about to open it or
                  \* to skip what it holds, reading, asleep, having closed the
                  \* file to open another, or ended by an exception
    ino,          \* the file that follow has open
    first,        \* history: how much of it was there and skipped on opening
    offset,       \* how many pieces of it have been read
    handled       \* the notifications parsed and handled, in order

rdvars == <<from_start, state, ino, first, offset, handled>>
vars == <<afvars, rdvars>>

Init ==
    /\ AFInit
    /\ from_start \in BOOLEAN
    /\ state = "waiting" /\ ino = NoFile /\ first = 0 /\ offset = 0
    /\ handled = <<>>

\* The file exists, so the loop that waits for it ends.
Found ==
    /\ state = "waiting" /\ path # NoFile
    /\ state' = "found"
    /\ UNCHANGED <<from_start, ino, first, offset, handled>>

\* The file that the name stands for now is opened, at its beginning.
OpenPath(next) ==
    /\ path # NoFile
    /\ state' = next /\ ino' = path /\ first' = 0 /\ offset' = 0
    /\ UNCHANGED <<from_start, handled>>

\* There is none any more, and what open raises, or readline then raises on the
\* closed file, is caught by nobody: the tracker ends.
Die ==
    /\ path = NoFile
    /\ state' = "dead"
    /\ UNCHANGED <<from_start, ino, first, offset, handled>>

\* The first open, which no exception handler surrounds.
Open == state = "found" /\ (OpenPath(IF from_start THEN "reading" ELSE "seeking") \/ Die)

\* Without --from-start, what the file holds by now is skipped.
Seek ==
    /\ state = "seeking"
    /\ state' = "reading" /\ first' = Len(raw[ino]) /\ offset' = Len(raw[ino])
    /\ UNCHANGED <<from_start, ino, handled>>

\* readline returns what there is up to a newline, or up to the end: the
\* newline comes with the last piece of a payload.
Unread == IF ino = NoFile THEN <<>> ELSE SubSeq(raw[ino], offset + 1, Len(raw[ino]))
LineEnds == {i \in DOMAIN Unread : Unread[i].part # "head"}
LineLength == IF LineEnds = {} THEN Len(Unread) ELSE CHOOSE i \in LineEnds : \A j \in LineEnds : i <= j
Line == SubSeq(Unread, 1, LineLength)

\* parse_line accepts a line that is one payload, from its beginning to its
\* end; it drops a part of one, or one glued to what an earlier crash left.
IsJSON(line) ==
    \/ line = <<Piece(Last(line).body, "whole")>>
    \/ line = <<Piece(Last(line).body, "head"), Piece(Last(line).body, "tail")>>

\* Mutant of ReadLine: what readline returned is skipped when the file has
\* grown by more than one line.
MutReadLine ==
    /\ state = "reading" /\ Unread # <<>>
    /\ offset' = Len(raw[ino])
    /\ handled' = IF IsJSON(Line) THEN Append(handled, Last(Line).body) ELSE handled
    /\ UNCHANGED <<from_start, state, ino, first>>

\* A line is read, and handled or dropped.
ReadLine ==
    /\ state = "reading" /\ Unread # <<>>
    /\ offset' = offset + LineLength
    /\ handled' = IF IsJSON(Line) THEN Append(handled, Last(Line).body) ELSE handled
    /\ UNCHANGED <<from_start, state, ino, first>>

\* Nothing to read: follow sleeps.
Sleep ==
    /\ state = "reading" /\ Unread = <<>>
    /\ state' = "asleep"
    /\ UNCHANGED <<from_start, ino, first, offset, handled>>

\* Mutant of Wake: whatever the name stands for is opened again.
MutWake ==
    /\ state = "asleep"
    /\ state' = IF path # NoFile THEN "closed" ELSE "reading"
    /\ UNCHANGED <<from_start, ino, first, offset, handled>>

\* Mutant of Wake: another file of that name is not noticed.
MutWakeSameFile ==
    /\ state = "asleep"
    /\ state' = "reading"
    /\ UNCHANGED <<from_start, ino, first, offset, handled>>

\* follow wakes up and looks at the name: if it stands for another file, the
\* old one is closed; if it stands for none, the old one is kept.
Wake ==
    /\ state = "asleep"
    /\ state' = IF path \notin {NoFile, ino} THEN "closed" ELSE "reading"
    /\ UNCHANGED <<from_start, ino, first, offset, handled>>

\* The open after that, which FileNotFoundError does not stop: the loop goes
\* on to readline with the file it has closed.
Reopen == state = "closed" /\ (OpenPath("reading") \/ Die)

Follow == Found \/ Open \/ Seek \/ ReadLine \/ Sleep \/ Wake \/ Reopen

Next == \/ AFNext /\ UNCHANGED rdvars
        \/ Follow /\ UNCHANGED afvars

\* The tracker is a loop of its own with nothing to wait for but its sleep.
Spec == Init /\ [][Next]_vars /\ WF_vars(Follow /\ UNCHANGED afvars)

-----------------------------------------------------------------------------
TypeOK ==
    /\ AFTypeOK
    /\ state \in {"waiting", "found", "seeking", "reading", "asleep", "closed", "dead"}
    /\ ino \in 0 .. Len(raw)
    /\ ino # NoFile => offset \in first .. Len(raw[ino])
    /\ handled \in Seq(1 .. sent)

\* No notification is handled twice or before an earlier one, whatever was
\* removed, restarted or torn: handled is strictly increasing.
HandledInOrder == \A i, j \in DOMAIN handled : i < j => handled[i] < handled[j]

\* Of the file that is open, every payload written in one piece has been
\* handled if follow is past it, unless a process killed while it wrote left
\* its torn line right before it.
OnlyTornLinesLost ==
    ino # NoFile =>
      \A i \in first + 1 .. offset :
        /\ raw[ino][i].part = "whole"
        /\ i > 1 => raw[ino][i - 1].part # "head"
        => Contains(handled, raw[ino][i].body)

\* When the name stands for another file than the one open, that file is opened
\* in the end, unless it is removed too or the tracker has died of an earlier
\* removal; and what is in a file that is open is read to its end, as long as
\* the name stands for that file.
FollowsTheName ==
    /\ (path \notin {NoFile, ino}) ~> (path \in {NoFile, ino} \/ state = "dead")
    /\ \A g \in 1 .. MaxStarts :
         (path = g /\ ino = g /\ Unread # <<>>) ~> (path # g \/ (ino = g /\ Unread = <<>>))

\* "Survives the AF being restarted (inode change)" (tracker.py:471): once it
\* has opened a file, follow goes on whatever the name stands for later.
Survives == ino # NoFile => state # "dead"

=============================================================================
