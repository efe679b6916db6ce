------------------------------- MODULE IPPool -------------------------------
(***************************************************************************)
(* lib/util/ippool/ip_pool.go: IPv4 address pools made from CIDRs.  A pool *)
(* wraps a LazyReusePool from which the network and the broadcast address  *)
(* are reserved; Exclude carves one pool (static addresses) out of another *)
(* (dynamic ones).  PDU sessions, the callers, get and give back addresses.*)
(* A call of a pool is one step, as the mutex of LazyReusePool makes it.   *)
(***************************************************************************)
EXTENDS SegmentList

CONSTANTS
    Pools,       \* the names of the pools
    Sessions,    \* the PDU sessions that ask for addresses
    CIDRs,       \* configured subnets: [base |-> address, host |-> host bits]
    Dynamic, Static   \* the two members of Pools that Exclude relates

ASSUME PoolsAssumption == Dynamic \in Pools /\ Static \in Pools /\ Dynamic # Static
ASSUME CIDRAssumption == \A c \in CIDRs : c.base \in Nat /\ c.host \in Nat

NoPool == [segs |-> <<>>, first |-> 0, last |-> -1, remain |-> 0]
NoAddr == [pool |-> Dynamic, addr |-> -1]

VARIABLES
    pool,        \* pool[p]: the LazyReusePool of p, NoPool before NewIPPool
    serving,     \* the configuration is finished
    sess         \* sess[s]: the address s has and the pool it came from

poolVars == <<pool, serving, sess>>

-----------------------------------------------------------------------------
\* calcAddrRange: base & mask and base | ^mask.
minAddr(c) == c.base - (c.base % (2 ^ c.host))
maxAddr(c) == minAddr(c) + (2 ^ c.host) - 1

\* Reserve of a range inside the pool.
Without(p, a, b) ==
    LET left == ReserveFrom(p.segs, a, b)
    IN  [p EXCEPT !.segs = left, !.remain = @ - (Size(p.segs) - Size(left))]

\* NewLazyReusePool on the range, less its network and broadcast addresses.
NewPool(c) ==
    LET all == [segs |-> <<Seg(minAddr(c), maxAddr(c))>>, first |-> minAddr(c),
                last |-> maxAddr(c), remain |-> 2 ^ c.host]
    IN  Without(Without(all, minAddr(c), minAddr(c)), maxAddr(c), maxAddr(c))

\* An address as net.IP carries it: 4 bytes, or 16 bytes of which the first
\* four are zero.  binary.BigEndian.Uint32 reads the first four.
IP(addr, len) == [addr |-> addr, len |-> len]
Uint32(ip) == IF ip.len = 4 THEN ip.addr ELSE 0

InitPools ==
    /\ pool = [p \in Pools |-> NoPool]
    /\ serving = FALSE
    /\ sess = [s \in Sessions |-> NoAddr]

\* NewIPPool: a mask that leaves no host bits is an error.
NewIPPool(p, c) ==
    /\ ~serving
    /\ pool[p] = NoPool
    /\ minAddr(c) < maxAddr(c)
    /\ pool' = [pool EXCEPT ![p] = NewPool(c)]
    /\ UNCHANGED <<serving, sess>>

Contained(p, q) ==
    q.first <= q.last /\ p.first <= q.first /\ q.last <= p.last

IsJoint(p, q) == ~(q.last < p.first \/ p.last < q.first)

\* Mutant of Exclude: the range excluded is cut short.
MutExclude ==
    /\ ~serving
    /\ pool[Dynamic] # NoPool /\ pool[Static] # NoPool
    /\ IF Contained(pool[Dynamic], pool[Static])
       THEN pool' = [pool EXCEPT ![Dynamic] =
                       Without(@, pool[Static].first, pool[Static].first + 1)]
       ELSE pool' = pool
    /\ serving' = (Contained(pool[Dynamic], pool[Static])
                    \/ ~IsJoint(pool[Dynamic], pool[Static]))
    /\ UNCHANGED sess

\* Exclude the static pool from the dynamic one, and start serving when that
\* succeeded or the two are disjoint; other configurations are refused.
Exclude ==
    /\ ~serving
    /\ pool[Dynamic] # NoPool /\ pool[Static] # NoPool
    /\ IF Contained(pool[Dynamic], pool[Static])
       THEN pool' = [pool EXCEPT ![Dynamic] =
                       Without(@, pool[Static].first, pool[Static].last)]
       ELSE pool' = pool
    /\ serving' = (Contained(pool[Dynamic], pool[Static])
                    \/ ~IsJoint(pool[Dynamic], pool[Static]))
    /\ UNCHANGED sess

\* Allocate(nil): the next free address, an error when the pool is empty.
AllocateNil(s, p) ==
    /\ serving /\ sess[s] = NoAddr
    /\ pool[p].segs # <<>>
    /\ sess' = [sess EXCEPT ![s] = [pool |-> p, addr |-> Head(pool[p].segs).first]]
    /\ pool' = [pool EXCEPT ![p].segs = AllocateFrom(@), ![p].remain = @ - 1]
    /\ UNCHANGED serving

\* Allocate(request) and Reallocate(request), which differ in how they tell
\* the caller that the address is in use; either way s then gets none.
AllocateRequest(s, p, request) ==
    LET v == Uint32(request)
        i == SegmentOf(pool[p].segs, v)
    IN  /\ serving /\ sess[s] = NoAddr
        /\ i # 0
        /\ sess' = [sess EXCEPT ![s] = [pool |-> p, addr |-> v]]
        /\ pool' = [pool EXCEPT ![p].segs = UseFrom(@, i, v), ![p].remain = @ - 1]
        /\ UNCHANGED serving

\* Mutant of Release: the address goes back to the dynamic pool.
MutRelease(s, len) ==
    LET p == Dynamic
        v == Uint32(IP(sess[s].addr, len))
        new == FreeInto(pool[p].segs, v)
    IN  /\ serving /\ sess[s] # NoAddr
        /\ v \in pool[p].first .. pool[p].last
        /\ new # pool[p].segs
        /\ pool' = [pool EXCEPT ![p].segs = new, ![p].remain = @ + 1]
        /\ sess' = [sess EXCEPT ![s] = NoAddr]
        /\ UNCHANGED serving

\* Release of the address of s, in either form, to the pool it came from.  A
\* failed Release (the address is not of the pool, or is free) changes nothing.
Release(s, len) ==
    LET p == sess[s].pool
        v == Uint32(IP(sess[s].addr, len))
        new == FreeInto(pool[p].segs, v)
    IN  /\ serving /\ sess[s] # NoAddr
        /\ v \in pool[p].first .. pool[p].last
        /\ new # pool[p].segs
        /\ pool' = [pool EXCEPT ![p].segs = new, ![p].remain = @ + 1]
        /\ sess' = [sess EXCEPT ![s] = NoAddr]
        /\ UNCHANGED serving

Addresses == UNION {minAddr(c) .. maxAddr(c) : c \in CIDRs}

Next ==
    \/ \E p \in Pools, c \in CIDRs : NewIPPool(p, c)
    \/ Exclude
    \/ \E s \in Sessions, p \in Pools : AllocateNil(s, p)
    \/ \E s \in Sessions, p \in Pools, a \in Addresses, len \in {4, 16} :
         AllocateRequest(s, p, IP(a, len))
    \/ \E s \in Sessions, len \in {4, 16} : Release(s, len)

Spec == InitPools /\ [][Next]_poolVars

-----------------------------------------------------------------------------
Held == {s \in Sessions : sess[s] # NoAddr}

PoolsTypeOK ==
    /\ \A p \in Pools : /\ pool[p].segs \in Seq([first : Addresses, last : Addresses])
                        /\ pool[p].remain \in Nat
    /\ serving \in BOOLEAN
    /\ \A s \in Held : sess[s].pool \in Pools /\ sess[s].addr \in Addresses

\* No two sessions have one address, whether they got it from the same pool,
\* from two pools, or by asking for it.
NoSharedAddress ==
    \A s, t \in Held : s # t => sess[s].addr # sess[t].addr

\* Addresses do not leak: what a pool lost since it began to serve, its
\* sessions have, and remain counts exactly what is left.  The network and the
\* broadcast address are nobody's, whether asked for or not.
NothingLost ==
    serving => \A p \in Pools :
      LET mine == {sess[s].addr : s \in {t \in Held : sess[t].pool = p}}
          usable == (pool[p].first + 1 .. pool[p].last - 1)
                    \ (IF p = Dynamic THEN pool[Static].first .. pool[Static].last ELSE {})
      IN  /\ mine \subseteq usable
          /\ SegValues(pool[p].segs) = usable \ mine
          /\ pool[p].remain = Cardinality(usable \ mine)
=============================================================================
