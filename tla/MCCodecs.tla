------------------------------ MODULE MCCodecs ------------------------------
(* An instance of Codecs for TLC.  Texts that are right, cut short, with    *)
(* ports or protocols at and over their widths, with words where numbers    *)
(* belong; rules with every kind of address.                                *)
EXTENDS Codecs

MCnormal == [net |-> "net", host |-> "host", hostInNet |-> "net"]

Protos == {Word("ip"), Word("tcp"), Numbers(<<<<6>>>>), Numbers(<<<<252>>>>), Numbers(<<<<300>>>>),
           Numbers(<<<<6, 7>>>>)}
PortTokens == {<<>>, <<Numbers(<<<<80>>>>)>>, <<Numbers(<<<<0>>, <<65535, 1>>>>)>>,
               <<Numbers(<<<<65536>>>>)>>, <<Numbers(<<<<1, 2, 70000>>>>)>>}
Addrs == {"any", "assigned", "hostInNet", "bad"}

Whole ==
    {<<Word(a), Word(d), pr, Word("from"), Word(s)>> \o sp \o <<Word("to"), Word(t)>> \o tp :
       a \in {"permit", "drop"}, d \in {"out", "in"}, pr \in Protos,
       s \in Addrs, sp \in PortTokens, t \in {"any", "host"}, tp \in PortTokens}
Cut == {SubSeq(p, 1, n) : p \in {q \in Whole : q[1].word = "permit" /\ q[3].word = "ip"
                                               /\ q[5].word = "any"}, n \in 0 .. 7}
MCTexts == Whole \cup Cut

Ports == {<<>>, <<<<80, 80>>>>, <<<<0, 0>>, <<7, 3>>>>}
MCRules ==
    [Action : {"permit", "deny", "drop"}, Dir : {"out", "in"}, Proto : {0, 6, 252, 255},
     Src : {"", "any", "hostInNet", "bad"}, SrcPorts : Ports,
     Dst : {"", "assigned", "net"}, DstPorts : Ports]

\* The octets of AKA: every one an unknown of its own.
Unknowns(from, n) == [i \in 1 .. n |-> {from + i}]
MCK == Unknowns(100, 16)
MCOtherK == Unknowns(200, 16)
MCOP == Unknowns(300, 16)
MCamf == Unknowns(400, 2)
MCRand(n) == Unknowns(1000 + 20 * n, 16)
MCSQN(n) == Unknowns(2000 + 10 * n, 6)

\* For AES, a function under which the blocks of the run have different images.
MCEncrypt(k, b) ==
    LET h == FoldLeft(LAMBDA sum, o : (sum * 31 + FoldSet(+, 7, o)) % 15485863, 1, k \o b)
    IN  <<>> \o [i \in 1 .. 16 |-> {10000 + ((h * (i + 7)) % 15485863)}]
=============================================================================
