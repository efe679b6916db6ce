----------------------------- MODULE OuterHeader -----------------------------
(***************************************************************************)
(* lib/util/pfcp/outer_header.go: ParseOuterHeaderCreation.  The flags in  *)
(* the first octet say which fields follow the first two octets; the       *)
(* fields have no length of their own, so each starts where the one before *)
(* it ends.  A payload is its flags, as a set of the bit numbers 1 .. 8,   *)
(* and its length; what a field is read from is the set of octets.         *)
(***************************************************************************)
EXTENDS Integers, FiniteSets

\* The fields in the order they are parsed: their octets and their flags.
Layout == <<[name |-> "TEID",        width |-> 4,  bits |-> {1, 2}],
            [name |-> "IPv4Address", width |-> 4,  bits |-> {1, 3, 5}],
            [name |-> "IPv6Address", width |-> 16, bits |-> {2, 4, 6}],
            [name |-> "PortNumber",  width |-> 2,  bits |-> {3, 4}],
            [name |-> "CTag",        width |-> 3,  bits |-> {7}],
            [name |-> "STag",        width |-> 3,  bits |-> {8}]>>

Present(flags, i) == flags \cap Layout[i].bits # {}

CONSTANT MaxLength    \* bound: octets of a payload

ASSUME LengthAssumption == MaxLength \in Nat

VARIABLES
    flags, l,      \* payload[0] and len(payload)
    next,          \* the field of Layout whose turn it is
    offset,
    read,          \* read[i]: the octets field i was read from
    result         \* "running", "ok" or "error"

ohvars == <<flags, l, next, offset, read, result>>

OHInit ==
    /\ flags \in SUBSET (1 .. 8) /\ l \in 0 .. MaxLength
    /\ next = 1 /\ offset = 2
    /\ read = [i \in DOMAIN Layout |-> {}]
    /\ result = IF l < 2 THEN "error" ELSE "running"

\* Mutant of ParseField: the bound is checked with the field left out.
MutParseField ==
    /\ result = "running" /\ next \in DOMAIN Layout
    /\ \/ /\ ~Present(flags, next)
          /\ next' = next + 1
          /\ UNCHANGED <<offset, read, result>>
       \/ /\ Present(flags, next) /\ l <= offset
          /\ result' = "error"
          /\ UNCHANGED <<next, offset, read>>
       \/ /\ Present(flags, next) /\ l > offset
          /\ read' = [read EXCEPT ![next] = offset .. offset + Layout[next].width - 1]
          /\ offset' = offset + Layout[next].width
          /\ next' = next + 1
          /\ UNCHANGED result
    /\ UNCHANGED <<flags, l>>

\* Mutant of ParseField: a tag is taken for four octets.
MutParseFieldWide ==
    /\ result = "running" /\ next \in DOMAIN Layout
    /\ LET width == IF Layout[next].width = 3 THEN 4 ELSE Layout[next].width
       IN  \/ /\ ~Present(flags, next)
              /\ next' = next + 1
              /\ UNCHANGED <<offset, read, result>>
           \/ /\ Present(flags, next) /\ l < offset + width
              /\ result' = "error"
              /\ UNCHANGED <<next, offset, read>>
           \/ /\ Present(flags, next) /\ l >= offset + width
              /\ read' = [read EXCEPT ![next] = offset .. offset + width - 1]
              /\ offset' = offset + width
              /\ next' = next + 1
              /\ UNCHANGED result
    /\ UNCHANGED <<flags, l>>

\* One field: absent, cut off, or read.
ParseField ==
    /\ result = "running" /\ next \in DOMAIN Layout
    /\ \/ /\ ~Present(flags, next)
          /\ next' = next + 1
          /\ UNCHANGED <<offset, read, result>>
       \/ /\ Present(flags, next) /\ l < offset + Layout[next].width
          /\ result' = "error"
          /\ UNCHANGED <<next, offset, read>>
       \/ /\ Present(flags, next) /\ l >= offset + Layout[next].width
          /\ read' = [read EXCEPT ![next] = offset .. offset + Layout[next].width - 1]
          /\ offset' = offset + Layout[next].width
          /\ next' = next + 1
          /\ UNCHANGED result
    /\ UNCHANGED <<flags, l>>

Finish ==
    /\ result = "running" /\ next \notin DOMAIN Layout
    /\ result' = "ok"
    /\ UNCHANGED <<flags, l, next, offset, read>>

-----------------------------------------------------------------------------
\* No octet is read that the payload does not have: no index out of range,
\* whatever the flags and the length.
InBounds == \A i \in DOMAIN Layout : read[i] \subseteq 2 .. l - 1

\* Where each field is when all that are present are laid out; the seventh is
\* the end.
Start(fl) ==
    LET at[i \in 1 .. 7] ==
          IF i = 1 THEN 2
          ELSE at[i - 1] + (IF Present(fl, i - 1) THEN Layout[i - 1].width ELSE 0)
    IN  at

\* A payload is accepted exactly when it is long enough for all the fields its
\* flags announce, and then each is read from its place, three octets for a
\* tag (outer_header.go:10).
FieldsInPlace ==
    LET end == Start(flags)[7]
    IN  /\ result = "error" => l < end
        /\ result = "ok" =>
             /\ l >= end
             /\ \A i \in DOMAIN Layout :
                  read[i] = IF Present(flags, i)
                            THEN Start(flags)[i] .. Start(flags)[i] + Layout[i].width - 1
                            ELSE {}
=============================================================================
