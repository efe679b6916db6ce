------------------------------- MODULE Codecs -------------------------------
(***************************************************************************)
(* The codecs of lib/util on every input of a small set: a flow            *)
(* description is decoded, encoded, and decoded again; a rule is encoded   *)
(* and decoded; the payload of an Outer Header Creation IE is parsed; the  *)
(* tokens of Milenage authenticate a USIM.  A behaviour is about one.      *)
(***************************************************************************)
EXTENDS FlowDesc, OuterHeader, AKA

CONSTANTS Texts, Rules    \* the inputs

ASSUME InputAssumption == (\A t \in Texts : t \in Seq(Tokens)) /\ Rules \subseteq IPFilterRule

VARIABLES
    text, rule,   \* what is worked on
    step          \* "decode", "encode", "decode again", then "done" or "refused"

flowvars == <<text, rule, step>>
vars == <<flowvars, ohvars, akavars>>

\* NewIPFilterRule.
NewIPFilterRule ==
    [Action |-> "permit", Dir |-> "out", Proto |-> ProtocolNumberAny,
     Src |-> "", SrcPorts |-> <<>>, Dst |-> "", DstPorts |-> <<>>]

NoHeader == /\ flags = {} /\ l = 0 /\ next = 1 /\ offset = 2
            /\ read = [i \in DOMAIN Layout |-> {}] /\ result = "error"

NoFlow == text = <<>> /\ rule = NewIPFilterRule /\ step = "refused"

Init ==
    \/ /\ NoHeader /\ NoAKA
       /\ \/ text \in Texts /\ rule = NewIPFilterRule /\ step = "decode"
          \/ text = <<>> /\ rule \in Rules /\ step = "encode"
    \/ NoFlow /\ NoAKA /\ OHInit
    \/ NoFlow /\ NoHeader /\ AKAInit

FlowDecode ==
    /\ step = "decode"
    /\ \/ Decode(text).ok /\ rule' = Decode(text).rule /\ step' = "encode"
       \/ ~Decode(text).ok /\ rule' = rule /\ step' = "refused"
    /\ UNCHANGED <<text, ohvars, akavars>>

FlowEncode ==
    /\ step = "encode"
    /\ \/ Encode(rule).ok /\ text' = Encode(rule).text /\ step' = "decode again"
       \/ ~Encode(rule).ok /\ text' = text /\ step' = "refused"
    /\ UNCHANGED <<rule, ohvars, akavars>>

FlowDecodeAgain ==
    /\ step = "decode again"
    /\ rule' = IF Decode(text).ok THEN Decode(text).rule ELSE NewIPFilterRule
    /\ step' = IF Decode(text).ok THEN "done" ELSE "refused"
    /\ UNCHANGED <<text, ohvars, akavars>>

Next == \/ FlowDecode \/ FlowEncode \/ FlowDecodeAgain
        \/ (ParseField \/ Finish) /\ UNCHANGED <<flowvars, akavars>>
        \/ AKANext /\ UNCHANGED <<flowvars, ohvars>>

Spec == Init /\ [][Next]_vars /\ AKAFairness

-----------------------------------------------------------------------------
\* The rule as Decode gives it back: no address is any, an address is printed
\* in its normal form.
Normal(r) ==
    LET addrs(w) == IF w \in DOMAIN normal THEN normal[w] ELSE IF w = "" THEN "any" ELSE w
    IN  [r EXCEPT !.Src = addrs(@), !.Dst = addrs(@)]

\* What Encode writes, Decode reads: a rule comes back in its normal form, so
\* a rule that was decoded comes back as it is, ports with their side and
\* protocols above 255 or equal to 252 included.
EncodeThenDecode ==
    [][step = "decode again" => step' = "done" /\ rule' = Normal(rule)]_vars

\* SwapSrcAndDst agrees with the text: the swapped rule can be encoded and
\* decodes to the two sides exchanged, ports with their addresses.
SwapCommutes ==
    step = "decode again" =>
      LET back == Encode(SwapSrcAndDst(rule))
      IN  back.ok /\ Decode(back.text).ok /\ Decode(back.text).rule = SwapSrcAndDst(Normal(rule))
=============================================================================
