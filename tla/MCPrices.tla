------------------------------- MODULE MCPrices ------------------------------
(***************************************************************************)
(* Instances of Prices for TLC.                                              *)
(***************************************************************************)
EXTENDS Prices

MCFeeds == {"open_er_api", "bonbast"}

\* Half cents, a tie of the rounding, a discount larger than the price, both ends of
\* the discount window, a negative adjustment, the toman's tenth and ten.
MCQuotes ==
    {q \in [base : {0, 1000000, 12000000}, rate : {1, 10, 15}, direct : BOOLEAN,
            adjust : BOOLEAN, percentage : {-100, 25}, fixed : {-1500000, 0},
            discountType : {"NONE", "PERCENTAGE", "FIXED"}, discountValue : {50, 2000000},
            start : {None, 1}, end : {None, 2}, now : 0..2,
            rounding : {0, 250000, 1000000}, minimum : {None, 1105000},
            maximum : {None, 1105000, 1110000}] : Quote(q)}
=============================================================================
