-------------------------- MODULE MCScreeningApi ---------------------------
(* Instances of ScreeningApi for TLC.  An item asks q1 and the expansion   *)
(* q2 of it, for records of one type or of any; r1 and r2 use one          *)
(* idempotency key, with the same bytes or with others.                    *)
EXTENDS ScreeningApi, TLC

CONSTANTS r1, r2, w1, w2, v1, v2, v3, k1

OneWorker  == v1 :> <<w1>>
OneEach    == v1 :> <<w1>> @@ v2 :> <<w2>>
Many       == "q1" :> <<1>> @@ "q2" :> <<2, 3>>
Few        == "q1" :> <<>> @@ "q2" :> <<2>>
OneKey     == [r \in Requests |-> k1]
SameBody   == [r \in Requests |-> "name"]
TwoBodies  == r1 :> "name" @@ r2 :> "other"
OfTypes    == <<"vessel", "person", "person">>
Persons    == "name" :> <<{"person"}>> @@ "other" :> << {}, {} >>
AnyType    == "name" :> <<{}>> @@ "other" :> << {}, {} >>
Contents   == "name" :> << <<"q1", "q2">> >> @@ "other" :> << <<"q1">>, <<"q2">> >>

SymPools ==
  {p @@ v : p \in Permutations(Requests),
            v \in {v1 :> v1 @@ v2 :> v2 @@ w1 :> w1 @@ w2 :> w2,
                   v1 :> v2 @@ v2 :> v1 @@ w1 :> w2 @@ w2 :> w1}}
=============================================================================
