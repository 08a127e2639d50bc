----------------------------- MODULE MCFeeClaim -----------------------------
(* Instances of FeeClaim for TLC: two networks, each with an alias. *)
EXTENDS FeeClaim, TLC

CONSTANTS eip1, eip2, alias1, alias2, eip3, alias3, call1, call2

MCCanonicalOf ==
    [n \in NetworkNames |-> CASE n \in {eip1, alias1} -> eip1
                              [] n \in {eip2, alias2} -> eip2
                              [] OTHER                -> eip3]

MCPools == <<eip1, eip2>>

AllNetworks == [networks |-> NoFilter, tokens |-> Networks]

\* Two networks that both may have fees; one of them twice, after an unknown one, and its
\* token only; all networks.
ManyFees ==
    {[networks |-> <<alias1, alias2>>, tokens |-> Networks],
     [networks |-> <<alias3, alias1, alias1>>, tokens |-> {eip1}],
     AllNetworks}

OfOneNetwork == {[networks |-> <<alias1>>, tokens |-> Networks]}
=============================================================================
