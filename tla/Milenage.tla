------------------------------ MODULE Milenage ------------------------------
(***************************************************************************)
(* lib/util/milenage/milenage.go: the functions by which a home network    *)
(* and a USIM that share K and OPc make and check the tokens of AKA.       *)
(*                                                                         *)
(* A slice is a sequence of octets.  An octet is kept symbolically: it is  *)
(* the set of the unknowns, numbered, whose exclusive or it is, so 0 is {} *)
(* and ^ is the symmetric difference.  Encrypt, AES, makes a block of      *)
(* unknowns from a key and a block.  Rotations, constants and the cutting  *)
(* of blocks are as in the code.                                           *)
(***************************************************************************)
EXTENDS Integers, Sequences, SequencesExt, FiniteSetsExt

CONSTANT Encrypt(_, _)    \* block.Encrypt under a key

K_LEN == 16
OP_LEN == 16
OPC_LEN == 16
SQN_LEN == 6
RAND_LEN == 16
AMF_LEN == 2
MAC_LEN == 8
AUTN_LEN == 16
AUTS_LEN == 14
CIPHER_BLOCK_LEN == 16

Octets(n) == {s \in Seq(SUBSET Int) : Len(s) = n}

r1 == 8
r3 == 4
r4 == 8
r5 == 12

\* xor: as long as the shorter of the two.
xor(a, b) == [i \in 1 .. Min({Len(a), Len(b)}) |-> SymDiff(a[i], b[i])]

\* The octet at i goes to (i + 16 - r) % 16.
rot(block, r) ==
    [i \in 1 .. CIPHER_BLOCK_LEN |-> block[((i - 1 + r) % CIPHER_BLOCK_LEN) + 1]]

\* The constant cn with the value n in its last octet, as one unknown: 1, 2, 4 or 8.
cn(n) == [i \in 1 .. CIPHER_BLOCK_LEN |-> IF i = CIPHER_BLOCK_LEN THEN {n} ELSE {}]

\* f1 and f1*: the two halves of OUT1.
f1(opc, k, rand, sqn, amf) ==
    LET temp == Encrypt(k, xor(rand, opc))
        in1  == sqn \o amf \o sqn \o amf
        out1 == xor(Encrypt(k, xor(rot(xor(in1, opc), r1), temp)), opc)
    IN  [mac_a |-> SubSeq(out1, 1, MAC_LEN),
         mac_s |-> SubSeq(out1, MAC_LEN + 1, 2 * MAC_LEN)]

\* f2 .. f5 and f5*: four blocks that differ in rotation and constant.
f2345(opc, k, rand) ==
    LET temp == xor(Encrypt(k, xor(rand, opc)), opc)
        out(r, n) == xor(Encrypt(k, xor(rot(temp, r), cn(n))), opc)
    IN  [res |-> SubSeq(out(0, 1), 9, 16), ck |-> out(r3, 2), ik |-> out(r4, 4),
         ak |-> SubSeq(out(0, 1), 1, SQN_LEN), akstar |-> SubSeq(out(r5, 8), 1, SQN_LEN)]

-----------------------------------------------------------------------------
(* The exported functions.  They answer a record whose err is "none", or   *)
(* "MAC", or the name of the first argument that has the wrong length.     *)

\* validateArg on each of the arguments, given as <<arg, name, expectedLen>>.
validateArgs(args) ==
    LET i == SelectInSeq(args, LAMBDA a : Len(a[1]) # a[3])
    IN  IF i = 0 THEN "none" ELSE args[i][2]

CutAUTS(auts) == [conc |-> SubSeq(auts, 1, SQN_LEN),
                  mac |-> SubSeq(auts, SQN_LEN + 1, AUTS_LEN)]

CutAUTN(autn) == [conc |-> SubSeq(autn, 1, SQN_LEN),
                  amf |-> SubSeq(autn, SQN_LEN + 1, SQN_LEN + AMF_LEN),
                  mac |-> SubSeq(autn, SQN_LEN + AMF_LEN + 1, AUTN_LEN)]

KeyArgs(opc, k, rand) ==
    <<<<opc, "OPc", OPC_LEN>>, <<k, "K", K_LEN>>, <<rand, "RAND", RAND_LEN>>>>

F2345(opc, k, rand) ==
    LET err == validateArgs(KeyArgs(opc, k, rand))
        f == f2345(opc, k, rand)
    IN  IF err # "none" THEN [err |-> err]
        ELSE [err |-> "none", res |-> f.res, ck |-> f.ck, ik |-> f.ik,
              ak |-> f.ak, akstar |-> f.akstar]

GenerateAKAParameters(opc, k, rand, sqn, amf) ==
    LET err == validateArgs(KeyArgs(opc, k, rand)
                            \o <<<<sqn, "SQN", SQN_LEN>>, <<amf, "AMF", AMF_LEN>>>>)
        f == f2345(opc, k, rand)
    IN  IF err # "none" THEN [err |-> err]
        ELSE [err |-> "none", ik |-> f.ik, ck |-> f.ck, xres |-> f.res,
              autn |-> xor(sqn, f.ak) \o amf \o f1(opc, k, rand, sqn, amf).mac_a]

\* Mutant of GenerateKeysWithAUTN: the MAC is not compared.
MutGenerateKeysWithAUTN(opc, k, rand, autn) ==
    LET err == validateArgs(KeyArgs(opc, k, rand) \o <<<<autn, "AUTN", AUTN_LEN>>>>)
        f == f2345(opc, k, rand)
    IN  IF err # "none" THEN [err |-> err]
        ELSE [err |-> "none", sqnhe |-> xor(CutAUTN(autn).conc, f.ak), ak |-> f.ak,
              ik |-> f.ik, ck |-> f.ck, res |-> f.res]

\* The SQN is uncovered with AK and the MAC over it compared with the one in
\* the token.
GenerateKeysWithAUTN(opc, k, rand, autn) ==
    LET err == validateArgs(KeyArgs(opc, k, rand) \o <<<<autn, "AUTN", AUTN_LEN>>>>)
        f == f2345(opc, k, rand)
        cut == CutAUTN(autn)
        sqnhe == xor(cut.conc, f.ak)
    IN  IF err # "none" THEN [err |-> err]
        ELSE IF f1(opc, k, rand, sqnhe, cut.amf).mac_a # cut.mac THEN [err |-> "MAC"]
        ELSE [err |-> "none", sqnhe |-> sqnhe, ak |-> f.ak,
              ik |-> f.ik, ck |-> f.ck, res |-> f.res]

resynchAMF == <<{}, {}>>

\* Mutant of GenerateAUTS: the SQN is concealed with AK.
MutGenerateAUTS(opc, k, rand, sqnms) ==
    [err |-> "none",
     auts |-> xor(sqnms, f2345(opc, k, rand).ak)
              \o f1(opc, k, rand, sqnms, resynchAMF).mac_s]

GenerateAUTS(opc, k, rand, sqnms) ==
    LET err == validateArgs(KeyArgs(opc, k, rand) \o <<<<sqnms, "SQNms", SQN_LEN>>>>)
    IN  IF err # "none" THEN [err |-> err]
        ELSE [err |-> "none",
              auts |-> xor(sqnms, f2345(opc, k, rand).akstar)
                       \o f1(opc, k, rand, sqnms, resynchAMF).mac_s]

\* Mutant of ValidateAUTS: the MAC is not compared.
MutValidateAUTS(opc, k, rand, auts) ==
    LET err == validateArgs(KeyArgs(opc, k, rand) \o <<<<auts, "AUTS", AUTS_LEN>>>>)
    IN  IF err # "none" THEN [err |-> err]
        ELSE [err |-> "none", sqnms |-> xor(CutAUTS(auts).conc, f2345(opc, k, rand).akstar)]

ValidateAUTS(opc, k, rand, auts) ==
    LET err == validateArgs(KeyArgs(opc, k, rand) \o <<<<auts, "AUTS", AUTS_LEN>>>>)
        cut == CutAUTS(auts)
        sqnms == xor(cut.conc, f2345(opc, k, rand).akstar)
    IN  IF err # "none" THEN [err |-> err]
        ELSE IF f1(opc, k, rand, sqnms, resynchAMF).mac_s # cut.mac THEN [err |-> "MAC"]
        ELSE [err |-> "none", sqnms |-> sqnms]

\* generateOPc, behind GenerateOPc and GenerateOPcFromHex.
GenerateOPc(k, op) ==
    LET err == validateArgs(<<<<k, "K", K_LEN>>, <<op, "OP", OP_LEN>>>>)
    IN  IF err # "none" THEN [err |-> err]
        ELSE [err |-> "none", opc |-> xor(Encrypt(k, op), op)]
=============================================================================
