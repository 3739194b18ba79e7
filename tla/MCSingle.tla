------------------------------ MODULE MCSingle ------------------------------
(***************************************************************************)
(* Eight URLs of four domains in three categories, so that the round over  *)
(* the categories skips emptied ones: a category of two interleaved        *)
(* domains, whose counters warm up apart, one of one domain and one of two.*)
(***************************************************************************)
EXTENDS Single, TLC

CONSTANTS u1, u2, u3, u4, u5, u6, u7, u8

MCUrl == {u1, u2, u3, u4, u5, u6, u7, u8}
MCCategory == {"x", "y", "z"}
MCOrder == <<"x", "y", "z">>
MCDomain == {"a", "b", "c", "d"}
MCDomainOf == (u1 :> "a" @@ u2 :> "b" @@ u3 :> "a" @@ u4 :> "b"
               @@ u5 :> "c" @@ u6 :> "c" @@ u7 :> "d" @@ u8 :> "d")
MCCatOf == [u \in MCUrl |-> IF u \in {u1, u2, u3, u4} THEN "x"
                            ELSE IF u \in {u5, u6} THEN "y" ELSE "z"]
MCBacklog == [x |-> <<u1, u2, u3, u4>>, y |-> <<u5, u6>>, z |-> <<u7, u8>>]
=============================================================================
