------------------------------ MODULE FlowDesc ------------------------------
(***************************************************************************)
(* lib/util/flowdesc/ip_filter_rule.go: the text of a packet filter, such  *)
(* as  permit out ip from 10.0.0.1/24 80,90-95 to any,  and the rule it    *)
(* stands for.  The text is a sequence of tokens, what strings.Fields      *)
(* makes of it in lower case.  A token is a word or a list of numbers and  *)
(* ranges: 80,90-95 is <<<<80>>, <<90, 95>>>>.                             *)
(***************************************************************************)
EXTENDS Integers, Sequences

CONSTANT normal   \* the words net.ParseCIDR or net.ParseIP accept, and what
                  \* each is printed as: 10.0.0.1/24 as 10.0.0.0/24

Wildcards == {"any", "assigned"}

ASSUME NormalAssumption ==
    /\ DOMAIN normal \subseteq STRING /\ DOMAIN normal \cap (Wildcards \cup {""}) = {}
    /\ \A a \in DOMAIN normal : normal[a] \in DOMAIN normal /\ normal[normal[a]] = normal[a]

Tokens == [word : STRING, nums : Seq(Seq(Nat) \ {<<>>})]
Word(w) == [word |-> w, nums |-> <<>>]
Numbers(ns) == [word |-> "", nums |-> ns]

ProtocolNumberAny == 252

\* The types PortRange and IPFilterRule: ports have 16 bits, protocols 8.
Uint8 == 0 .. 255
Uint16 == 0 .. 65535
PortRange == Uint16 \X Uint16
IPFilterRule ==
    [Action : STRING, Dir : STRING, Proto : Uint8,
     Src : STRING, SrcPorts : Seq(PortRange), Dst : STRING, DstPorts : Seq(PortRange)]

Refused == [ok |-> FALSE]

\* Mutant of ParsePorts: a range is read as its first port.
MutParsePorts(tok) ==
    IF tok.nums # <<>> /\ \A i \in DOMAIN tok.nums : tok.nums[i][1] \in Uint16
    THEN [ok |-> TRUE, ports |-> [i \in DOMAIN tok.nums |-> <<tok.nums[i][1], tok.nums[i][1]>>]]
    ELSE Refused

\* ParsePorts.  validPortsFormat accepts every string (the whole of its
\* expression is optional), so that the numbers fit 16 bits is all that is
\* checked; of 1-2-3 the 3 is not looked at.
ParsePorts(tok) ==
    LET first(r) == r[1]
        last(r) == IF Len(r) = 1 THEN r[1] ELSE r[2]
    IN  IF tok.nums # <<>> /\ \A i \in DOMAIN tok.nums : {first(tok.nums[i]), last(tok.nums[i])}
                                                            \subseteq Uint16
        THEN [ok |-> TRUE,
              ports |-> [i \in DOMAIN tok.nums |-> <<first(tok.nums[i]), last(tok.nums[i])>>]]
        ELSE Refused

\* parseProto: a word or a number, which is cut to 8 bits.
IsProto(tok) == tok.word = "ip" \/ (Len(tok.nums) = 1 /\ Len(tok.nums[1]) = 1)

ParseProto(tok) == IF tok.word = "ip" THEN ProtocolNumberAny ELSE tok.nums[1][1] % 256

\* validAddrsFormat; parseFlowDescAddrs accepts the same words.
IsAddrs(w) == w \in Wildcards \cup DOMAIN normal

\* parseFlowDescAddrs: the words any and assigned, or what package net reads.
ParseAddrs(w) == IF w \in Wildcards THEN w ELSE normal[w]

\* Decode: the ports after an address may be missing; those after the second
\* are dropped when they cannot be read, as is whatever follows them.
Decode(p) ==
    LET n == Len(p)
        src == ParsePorts(p[6])
        to == IF src.ok THEN 7 ELSE 6
        dst == ParsePorts(p[to + 2])
    IN  IF /\ n >= 6
           /\ p[1].word \in {"permit", "deny"}
           /\ p[2].word = "out"
           /\ IsProto(p[3])
           /\ p[4].word = "from" /\ IsAddrs(p[5].word)
           /\ n >= to + 1
           /\ p[to].word = "to" /\ IsAddrs(p[to + 1].word)
        THEN [ok |-> TRUE,
              rule |-> [Action |-> p[1].word, Dir |-> p[2].word, Proto |-> ParseProto(p[3]),
                        Src |-> ParseAddrs(p[5].word),
                        SrcPorts |-> IF src.ok THEN src.ports ELSE <<>>,
                        Dst |-> ParseAddrs(p[to + 1].word),
                        DstPorts |-> IF n >= to + 2 /\ dst.ok THEN dst.ports ELSE <<>>]]
        ELSE Refused

\* PortRanges.String: one port is written alone; no ports are no token.
PortsToken(ports) ==
    IF ports = <<>> THEN <<>>
    ELSE <<Numbers([i \in DOMAIN ports |-> IF ports[i][1] = ports[i][2] THEN <<ports[i][1]>>
                                           ELSE ports[i]])>>

AddrsToken(w) == <<Word(IF w = "" THEN "any" ELSE w)>>

\* Mutant of Encode: the ports of the two sides are swapped.
MutEncode(r) ==
    IF /\ r.Action \in {"permit", "deny"} /\ r.Dir = "out"
       /\ \A w \in {r.Src, r.Dst} : w = "" \/ IsAddrs(w)
    THEN [ok |-> TRUE,
          text |-> <<Word(r.Action), Word(r.Dir)>>
                   \o <<IF r.Proto = ProtocolNumberAny THEN Word("ip") ELSE Numbers(<<<<r.Proto>>>>)>>
                   \o <<Word("from")>> \o AddrsToken(r.Src) \o PortsToken(r.DstPorts)
                   \o <<Word("to")>> \o AddrsToken(r.Dst) \o PortsToken(r.SrcPorts)]
    ELSE Refused

\* Encode.
Encode(r) ==
    IF /\ r.Action \in {"permit", "deny"} /\ r.Dir = "out"
       /\ \A w \in {r.Src, r.Dst} : w = "" \/ IsAddrs(w)
    THEN [ok |-> TRUE,
          text |-> <<Word(r.Action), Word(r.Dir)>>
                   \o <<IF r.Proto = ProtocolNumberAny THEN Word("ip") ELSE Numbers(<<<<r.Proto>>>>)>>
                   \o <<Word("from")>> \o AddrsToken(r.Src) \o PortsToken(r.SrcPorts)
                   \o <<Word("to")>> \o AddrsToken(r.Dst) \o PortsToken(r.DstPorts)]
    ELSE Refused

\* SwapSrcAndDst.
SwapSrcAndDst(r) ==
    [r EXCEPT !.Src = r.Dst, !.Dst = r.Src, !.SrcPorts = r.DstPorts, !.DstPorts = r.SrcPorts]
=============================================================================
