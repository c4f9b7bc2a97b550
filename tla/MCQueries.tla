----------------------------- MODULE MCQueries -----------------------------
(* Two cases that refer to two clients, one of which is the other's parent.  *)
(* As texts "10" < "9" < "x"; the numbers are the other way round.           *)
EXTENDS Queries, TLC

CONSTANTS case, client, amount, tags, owner, memo, tier, parent

ten == 1
nine == 2
x == 3
c1 == 4
c2 == 5
l1 == 6
l2 == 7
lost == 8

MCTexts == 1..8
MCNumOf == [t \in MCTexts |-> IF t = ten THEN 10 ELSE IF t = nine THEN 9 ELSE NoNum]
MCWithin == {<<t, t>> : t \in MCTexts}
MCDocs == {c1, l1, l2, c2}
MCTypeOf == [d \in MCDocs |-> IF d \in {c1, c2} THEN case ELSE client]
MCNames == {amount, tags, owner, memo, tier, parent}

Field(kind, index, target) == [kind |-> kind, index |-> index, target |-> target]
Nothing == Field("none", FALSE, AnyType)
MCSchema ==
  (case :> (amount :> Field("number", TRUE, AnyType) @@ tags :> Field("list", TRUE, AnyType)
            @@ owner :> Field("ref", TRUE, client) @@ memo :> Field("refs", FALSE, client)
            @@ tier :> Nothing @@ parent :> Nothing))
  @@ (client :> (tier :> Field("string", TRUE, AnyType) @@ parent :> Field("ref", TRUE, client)
                 @@ amount :> Nothing @@ tags :> Nothing @@ owner :> Nothing @@ memo :> Nothing))

Blank == [f \in MCNames \union {Body} |-> <<>>]
Cases ==
  {[Blank EXCEPT ![owner] = <<l1>>, ![amount] = <<nine>>, ![tags] = <<ten, x>>, ![memo] = <<l1, lost>>],
   [Blank EXCEPT ![owner] = <<l2>>, ![amount] = <<ten>>],
   [Blank EXCEPT ![owner] = <<lost>>, ![amount] = <<nine>>, ![Body] = <<c1>>]}
Clients ==
  {[Blank EXCEPT ![tier] = <<x>>],
   [Blank EXCEPT ![tier] = <<nine>>, ![parent] = <<l1>>]}
MCContents == [d \in MCDocs |-> IF d \in {c1, c2} THEN Cases ELSE Clients]
=============================================================================
