-------------------------------- MODULE AKA --------------------------------
(***************************************************************************)
(* Authentication and key agreement with the tokens of Milenage, as        *)
(* src/test/registration_test.go runs it against the network: the home     *)
(* network challenges, the USIM answers with RES or, when the SQN of the   *)
(* challenge is not behind its own, with AUTS, and the network takes its   *)
(* SQN from there and challenges again.  Network and USIM are outside this *)
(* repository; the tokens they make and check are Milenage's.              *)
(*                                                                         *)
(* Messages are never taken off the air, so that they can be lost, late,   *)
(* repeated and overtaken.  A message is kept as what was sent and what    *)
(* happened to it on the way; the token received is computed from that.    *)
(***************************************************************************)
EXTENDS Milenage

CONSTANTS
    K, OtherK, OP,      \* the key of the USIM, that of another, the operator's OP
    amf,                \* the AMF of the network: not that of AUTS
    Rand(_), SQN(_),    \* octets of the n-th challenge and of a number
    MaxSQN, MaxChallenges, MaxFaults   \* bounds

Garbled == MaxSQN + 1   \* what octets stand for that are no SQN anybody had

\* What may happen to a token: nothing; an octet lost; an octet of a part
\* changed; it was made for another USIM.
Damage == {"none", "short", "sqn", "amf", "mac", "other"}

VARIABLES
    sqnHE,     \* the SQN the network uses next
    made,      \* made[n]: the SQN of the n-th challenge; the last one counts
    verdict,   \* the network's: "idle" (challenge to be made), "pending", "ok"
    down,      \* challenges on the air: [n, damage]
    up,        \* answers on the air: [n, sqn, damage], sqn = 0 for RES
    sqnMS,     \* the highest SQN the USIM accepted
    session,   \* what the USIM holds: the challenge it accepted and its keys
    faults     \* how many faults happened

akavars == <<sqnHE, made, verdict, down, up, sqnMS, session, faults>>

NoSession == [n |-> 0]

\* No authentication in this behaviour.
NoAKA == /\ sqnHE = 0 /\ made = <<>> /\ verdict = "ok" /\ down = {} /\ up = {}
         /\ sqnMS = 0 /\ session = NoSession /\ faults = 0

\* The two sides need not agree on where the SQN is.
AKAInit ==
    /\ sqnHE \in 1 .. 3 /\ sqnMS \in {1, 3}
    /\ made = <<>> /\ verdict = "idle" /\ down = {} /\ up = {}
    /\ session = NoSession /\ faults = 0

opc == GenerateOPc(K, OP).opc

\* The number octets stand for.
Number(octets) ==
    IF \E n \in 0 .. MaxSQN : SQN(n) = octets
    THEN CHOOSE n \in 0 .. MaxSQN : SQN(n) = octets
    ELSE Garbled

\* A token with an octet of one of its parts changed.
Spoil(token, i) == [token EXCEPT ![i] = SymDiff(@, {16})]

\* A token of the n-th challenge as it arrives.
Arriving(token, damage, other) ==
    CASE damage = "none"  -> token
      [] damage = "short" -> Front(token)
      [] damage = "sqn"   -> Spoil(token, SQN_LEN)
      [] damage = "amf"   -> Spoil(token, SQN_LEN + 1)
      [] damage = "mac"   -> Spoil(token, Len(token))
      [] damage = "other" -> other

(* What the functions make of every token that can be sent, by the number  *)
(* of its challenge, the SQN in it and its damage.                         *)
Challenges == 1 .. MaxChallenges

\* The network's vector of a challenge.
Vector == [n \in Challenges |-> [s \in 1 .. MaxSQN |->
             GenerateAKAParameters(opc, K, Rand(n), SQN(s), amf)]]

\* The AUTN of a challenge as it reaches the USIM, and what that makes of it.
AUTN == [n \in Challenges |-> [s \in 1 .. MaxSQN |-> [d \in Damage |->
           Arriving(Vector[n][s].autn, d,
                    GenerateAKAParameters(opc, OtherK, Rand(n), SQN(s), amf).autn)]]]
Keys == [n \in Challenges |-> [s \in 1 .. MaxSQN |-> [d \in Damage |->
           GenerateKeysWithAUTN(opc, K, Rand(n), AUTN[n][s][d])]]]

\* The RES of a challenge as it reaches the network.
RES == [n \in Challenges |-> [d \in Damage |->
          Arriving(F2345(opc, K, Rand(n)).res, d, F2345(opc, OtherK, Rand(n)).res)]]

\* The AUTS of a USIM as it reaches the network, and what that makes of it
\* after the challenge last.
AUTS == [n \in Challenges |-> [s \in 1 .. MaxSQN |-> [d \in Damage |->
           Arriving(GenerateAUTS(opc, K, Rand(n), SQN(s)).auts, d,
                    GenerateAUTS(opc, OtherK, Rand(n), SQN(s)).auts)]]]
Resync == [last \in Challenges |-> [n \in Challenges |-> [s \in 1 .. MaxSQN |-> [d \in Damage |->
             ValidateAUTS(opc, K, Rand(last), AUTS[n][s][d])]]]]

\* The arguments have their lengths, and an SQN one encoding.
ASSUME ArgumentAssumption ==
    /\ {K, OtherK, OP} \subseteq Octets(CIPHER_BLOCK_LEN) /\ amf \in Octets(AMF_LEN)
    /\ MaxSQN \in Nat /\ MaxSQN >= 3 /\ {MaxChallenges, MaxFaults} \subseteq Nat
    /\ \A n \in Challenges : Rand(n) \in Octets(RAND_LEN)
    /\ \A s \in 0 .. MaxSQN : SQN(s) \in Octets(SQN_LEN)
    /\ \A s, t \in 0 .. MaxSQN : SQN(s) = SQN(t) => s = t

\* What AKA expects of the cipher: no token passes by accident for one made with
\* another SQN, AMF, RAND or key.
ASSUME CipherAssumption ==
    /\ \A n \in Challenges, s \in 1 .. MaxSQN, d \in {"sqn", "amf", "other"} :
         LET cut == CutAUTN(AUTN[n][s][d])
             sqn == xor(cut.conc, f2345(opc, K, Rand(n)).ak)
         IN  cut.mac # f1(opc, K, Rand(n), sqn, cut.amf).mac_a
    /\ \A last, n \in Challenges, s \in 1 .. MaxSQN, d \in Damage \ {"short"} :
         (last # n \/ d \in {"sqn", "other"}) =>
           LET cut == CutAUTS(AUTS[n][s][d])
               sqn == xor(cut.conc, f2345(opc, K, Rand(last)).akstar)
           IN  cut.mac # f1(opc, K, Rand(last), sqn, resynchAMF).mac_s
    /\ \A last, n \in Challenges, d \in Damage \ {"short"} :
         (last # n \/ d = "other") => RES[n][d] # RES[last]["none"]

-----------------------------------------------------------------------------
\* The network makes a challenge: the first, the one after a resynchronisation
\* or, as a fault, another because no answer came.
Challenge ==
    /\ Len(made) < MaxChallenges /\ sqnHE < MaxSQN
    /\ \/ verdict = "idle" /\ UNCHANGED faults
       \/ verdict = "pending" /\ faults < MaxFaults /\ faults' = faults + 1
    /\ made' = Append(made, sqnHE)
    /\ down' = down \cup {[n |-> Len(made'), damage |-> "none"]}
    /\ sqnHE' = sqnHE + 1
    /\ verdict' = "pending"
    /\ UNCHANGED <<up, sqnMS, session>>

\* The network's data is restored from an older copy.
Restore ==
    /\ verdict = "pending" /\ sqnHE > 1 /\ faults < MaxFaults
    /\ faults' = faults + 1
    /\ sqnHE' = 1
    /\ UNCHANGED <<made, verdict, down, up, sqnMS, session>>

\* A message is damaged.
DamageMessage ==
    /\ verdict = "pending" /\ faults < MaxFaults
    /\ faults' = faults + 1
    /\ \E d \in Damage \ {"none"} :
         \/ \E m \in down : down' = down \cup {[m EXCEPT !.damage = d]} /\ UNCHANGED up
         \/ \E m \in up : up' = up \cup {[m EXCEPT !.damage = d]} /\ UNCHANGED down
    /\ UNCHANGED <<sqnHE, made, verdict, sqnMS, session>>

\* The USIM gets a challenge: it refuses the token, accepts it, or asks to
\* resynchronise.  The challenge is then gone or, as a fault, comes again.
Receive(m) ==
    LET keys == Keys[m.n][made[m.n]][m.damage]
        fresh == keys.err = "none" /\ Number(keys.sqnhe) > sqnMS
    IN  /\ verdict = "pending" /\ m \in down
        /\ \/ down' = down \ {m} /\ UNCHANGED faults
           \/ faults < MaxFaults /\ faults' = faults + 1 /\ UNCHANGED down
        /\ \/ keys.err # "none" /\ UNCHANGED <<up, sqnMS, session>>
           \/ /\ fresh
              /\ sqnMS' = Number(keys.sqnhe)
              /\ session' = [n |-> m.n, sqn |-> sqnMS', ck |-> keys.ck, ik |-> keys.ik]
              /\ up' = up \cup {[n |-> m.n, sqn |-> 0, damage |-> "none"]}
           \/ /\ keys.err = "none" /\ ~fresh
              /\ up' = up \cup {[n |-> m.n, sqn |-> sqnMS, damage |-> "none"]}
              /\ UNCHANGED <<sqnMS, session>>
        /\ UNCHANGED <<sqnHE, made, verdict>>

\* The network gets RES: it must be that of its last challenge.
ReceiveRES(m) ==
    /\ verdict = "pending" /\ m \in up /\ m.sqn = 0
    /\ RES[m.n][m.damage] = Vector[Len(made)][made[Len(made)]].xres
    /\ verdict' = "ok"
    /\ UNCHANGED <<sqnHE, made, down, up, sqnMS, session, faults>>

\* The network gets AUTS, checks it against the RAND of its last challenge and
\* goes on behind the SQN in it.
ReceiveAUTS(m) ==
    LET valid == Resync[Len(made)][m.n][m.sqn][m.damage]
    IN  /\ verdict = "pending" /\ m \in up /\ m.sqn # 0
        /\ valid.err = "none"
        /\ sqnHE' = Number(valid.sqnms) + 1
        /\ verdict' = "idle"
        /\ UNCHANGED <<made, down, up, sqnMS, session, faults>>

AKANext == \/ Challenge \/ Restore \/ DamageMessage
           \/ \E m \in down : Receive(m)
           \/ \E m \in up : ReceiveRES(m) \/ ReceiveAUTS(m)

\* The network makes the challenges it owes, and what was sent last arrives.
AKAFairness ==
    /\ WF_akavars(verdict = "idle" /\ Challenge)
    /\ WF_akavars(Receive([n |-> Len(made), damage |-> "none"]))
    /\ WF_akavars(\E m \in up : m.n = Len(made) /\ (ReceiveRES(m) \/ ReceiveAUTS(m)))

-----------------------------------------------------------------------------
\* What the USIM holds it holds together with the network: it accepts a
\* challenge only as the network made it, with the SQN the network gave it,
\* and derives the keys the network derived.
SessionIsShared ==
    session # NoSession =>
      /\ session.n \in DOMAIN made /\ session.sqn = made[session.n]
      /\ session.ck = Vector[session.n][session.sqn].ck
      /\ session.ik = Vector[session.n][session.sqn].ik

\* The network authenticates only a USIM that accepted its last challenge, and
\* takes its SQN only from the USIM's undamaged answer to it.
NetworkIsAnswered ==
    [][/\ verdict = "pending" /\ verdict' = "ok" =>
            [n |-> Len(made), sqn |-> 0, damage |-> "none"] \in up
       /\ verdict = "pending" /\ verdict' = "idle" =>
            [n |-> Len(made), sqn |-> sqnHE' - 1, damage |-> "none"] \in up]_akavars

\* Wherever the two SQNs are, and whatever faults happen, they come together
\* again and the USIM is authenticated.
Authenticates == verdict = "idle" ~> verdict = "ok"
=============================================================================
