--------------------------- MODULE ConsoleProofs ---------------------------
(***************************************************************************)
(* What holds of a device's session and configuration whatever lines its   *)
(* connections type and however the steps of the lines interleave: any     *)
(* menus, ports and number of connections, provided that a line which must *)
(* name something does, and that interface lines name ports of the model.  *)
(* What replaying the running configuration gives follows step by step as  *)
(* the configuration grows.                                                *)
(***************************************************************************)
EXTENDS Console, SequenceTheorems, WellFoundedInduction, TLAPS

-----------------------------------------------------------------------------
(* Sessions, and what lists of assignments do to them. m is the menu.      *)

Args(m) == {l.arg : l \in m} \cup {None}
Protos(m) == {"isakmp", "crypto"} \cup {l.arg : l \in {l \in m : l.cmd = "router"}}

Names == {"Mode", "Iface", "RouterProto", "ClassMapName", "PolicyMapName", "PolicyClassName"}
SessionOK(m, s) ==
    s \in [Mode : Modes, Iface : Ports \cup {None}, RouterProto : Protos(m) \cup {None},
           ClassMapName : Args(m), PolicyMapName : Args(m), PolicyClassName : Args(m)]
ValueOK(m, a) ==
    /\ a.field \in Names
    /\ a.field = "Mode" => a.value \in Modes
    /\ a.field = "Iface" => a.value \in Ports \cup {None}
    /\ a.field = "RouterProto" => a.value \in Protos(m) \cup {None}
    /\ a.field \in {"ClassMapName", "PolicyMapName", "PolicyClassName"} => a.value \in Args(m)

(* A list assigns to a field once.                                         *)
ListOK(m, as) ==
    /\ \E S : as \in Seq(S)
    /\ \A i \in DOMAIN as : ValueOK(m, as[i])
    /\ \A i, j \in DOMAIN as : as[i].field = as[j].field => i = j
Done(s, a) == [s EXCEPT ![a.field] = a.value]

Named(s) == s = [f \in Names |-> s[f]]

Apart(s, f, t) == \A g \in Names : g # f => t[g] = s[g]

LEMMA DoneOK ==
    ASSUME NEW m, NEW s, SessionOK(m, s), NEW a, ValueOK(m, a)
    PROVE  /\ SessionOK(m, Done(s, a)) /\ Done(s, a)[a.field] = a.value
           /\ Apart(s, a.field, Done(s, a))
  BY DEF SessionOK, ValueOK, Done, Names, Apart

LEMMA SessionIs ==
    ASSUME NEW m, NEW s, SessionOK(m, s)
    PROVE  Named(s) /\ DOMAIN s = Names
  BY DEF SessionOK, Names, Named

LEMMA SameSession ==
    ASSUME NEW m, NEW s, NEW t, SessionOK(m, s), SessionOK(m, t), \A f \in Names : s[f] = t[f]
    PROVE  s = t
  BY SessionIs DEF Named

(* What t has of a list, and what it keeps of s.                           *)
Gives(as, t) == \A i \in DOMAIN as : t[as[i].field] = as[i].value
Keeps(s, as, t) == \A f \in Names : (\A i \in DOMAIN as : as[i].field # f) => t[f] = s[f]

LEMMA AssignedIs ==
    ASSUME NEW m, NEW s, SessionOK(m, s), NEW as, ListOK(m, as)
    PROVE  Named(Assigned(s, as)) /\ Gives(as, Assigned(s, as)) /\ Keeps(s, as, Assigned(s, as))
<1> DEFINE at(f) == CHOOSE i \in DOMAIN as : as[i].field = f
           v(f) == IF \E i \in DOMAIN as : as[i].field = f THEN as[at(f)].value ELSE s[f]
<1>1. DOMAIN s = Names
  BY SessionIs
<1>2. Assigned(s, as) = [f \in Names |-> v(f)]
  BY <1>1, Zenon DEF Assigned
<1>3. ASSUME NEW i \in DOMAIN as PROVE at(as[i].field) = i
  <2>1. \E j \in DOMAIN as : as[j].field = as[i].field
    OBVIOUS
  <2>2. at(as[i].field) \in DOMAIN as /\ as[at(as[i].field)].field = as[i].field
    BY <2>1, Zenon
  <2> QED BY <2>2, Zenon DEF ListOK
<1>4. \A i \in DOMAIN as : v(as[i].field) = as[i].value /\ as[i].field \in Names
  <2>1. \A i \in DOMAIN as : as[i].field \in Names
    BY DEF ListOK, ValueOK
  <2>2. ASSUME NEW i \in DOMAIN as PROVE v(as[i].field) = as[i].value
    <3>1. at(as[i].field) = i
      BY <1>3
    <3> HIDE DEF at
    <3> QED BY <3>1
  <2> QED BY <2>1, <2>2
<1>5. \A f \in Names : (\A i \in DOMAIN as : as[i].field # f) => v(f) = s[f]
  OBVIOUS
<1> HIDE DEF v
<1> DEFINE t == Assigned(s, as)
<1>6. t = [f \in Names |-> v(f)]
  BY <1>2
<1> HIDE DEF t
<1>7. Named(t) /\ \A f \in Names : t[f] = v(f)
  BY <1>6 DEF Named
<1>8. Gives(as, t)
  BY <1>4, <1>7 DEF Gives
<1>9. Keeps(s, as, t)
  BY <1>5, <1>7 DEF Keeps
<1> QED BY <1>7, <1>8, <1>9, Zenon DEF t

LEMMA AssignedOK ==
    ASSUME NEW m, NEW s, SessionOK(m, s), NEW as, ListOK(m, as)
    PROVE  SessionOK(m, Assigned(s, as))
<1> DEFINE t == Assigned(s, as)
<1>1. Named(t) /\ Gives(as, t) /\ Keeps(s, as, t)
  BY AssignedIs, Zenon
<1> HIDE DEF t
<1>2. ASSUME NEW f \in Names
      PROVE  t[f] = s[f] \/ \E i \in DOMAIN as : as[i].field = f /\ t[f] = as[i].value
  BY <1>1 DEF Gives, Keeps
<1>3. ASSUME NEW f \in Names PROVE t[f] = s[f] \/ ValueOK(m, [field |-> f, value |-> t[f]])
  <2>1. ASSUME NEW i \in DOMAIN as, as[i].field = f, t[f] = as[i].value
        PROVE  ValueOK(m, [field |-> f, value |-> t[f]])
    BY <2>1 DEF ListOK, ValueOK
  <2> QED BY <1>2, <2>1
<1>4. /\ t.Mode \in Modes /\ t.Iface \in Ports \cup {None} /\ t.RouterProto \in Protos(m) \cup {None}
      /\ t.ClassMapName \in Args(m) /\ t.PolicyMapName \in Args(m) /\ t.PolicyClassName \in Args(m)
  BY <1>3 DEF ValueOK, Names, SessionOK
<1>5. SessionOK(m, t)
  BY <1>1, <1>4 DEF Named, SessionOK, Names
<1> QED BY <1>5 DEF t

LEMMA AssignedNone ==
    ASSUME NEW m, NEW s, SessionOK(m, s)
    PROVE  ListOK(m, <<>>) /\ Assigned(s, <<>>) = s
<1>1. ListOK(m, <<>>)
  <2>1. <<>> \in Seq({})
    OBVIOUS
  <2>2. \E S : <<>> \in Seq(S)
    BY <2>1, Zenon
  <2> QED BY <2>2 DEF ListOK
<1>2. SessionOK(m, Assigned(s, <<>>)) /\ Keeps(s, <<>>, Assigned(s, <<>>))
  BY <1>1, AssignedOK, AssignedIs, Zenon
<1>3. \A f \in Names : Assigned(s, <<>>)[f] = s[f]
  BY <1>2 DEF Keeps
<1> QED BY <1>1, <1>2, <1>3, SameSession

(* One assignment of a list done, the rest to do.                          *)
LEMMA Indices ==
    ASSUME NEW n \in Nat \ {0}
    PROVE  /\ 1 \in 1..n /\ \A i \in 1..n - 1 : i + 1 \in 1..n
           /\ \A i \in 1..n : i # 1 => i - 1 \in 1..n - 1 /\ (i - 1) + 1 = i
  OBVIOUS

LEMMA Parts ==
    ASSUME NEW S, NEW as \in Seq(S), as # <<>>
    PROVE  /\ Len(as) \in Nat \ {0} /\ DOMAIN as = 1..Len(as) /\ 1 \in DOMAIN as
           /\ Head(as) = as[1] /\ Tail(as) \in Seq(S)
           /\ Len(Tail(as)) = Len(as) - 1 /\ DOMAIN Tail(as) = 1..Len(as) - 1
           /\ \A i \in DOMAIN Tail(as) : i + 1 \in DOMAIN as /\ Tail(as)[i] = as[i + 1]
<1>1. Len(as) \in Nat \ {0} /\ DOMAIN as = 1..Len(as)
  BY EmptySeq, LenProperties, Zenon
<1>2. /\ Tail(as) \in Seq(S) /\ Len(Tail(as)) = Len(as) - 1
      /\ \A i \in 1..Len(Tail(as)) : Tail(as)[i] = as[i + 1]
  BY HeadTailProperties
<1>3. DOMAIN Tail(as) = 1..Len(Tail(as))
  BY <1>2, LenProperties, Zenon
<1>4. Head(as) = as[1]
  BY <1>1 DEF Head
<1>5. 1 \in 1..Len(as) /\ \A i \in 1..Len(as) - 1 : i + 1 \in 1..Len(as)
  BY <1>1, Indices, Zenon
<1>6. DOMAIN Tail(as) = 1..Len(as) - 1
  BY <1>2, <1>3
<1> QED BY <1>1, <1>2, <1>3, <1>4, <1>5, <1>6, Zenon

Unfolds(m, s, as, a, more) ==
    /\ ValueOK(m, a) /\ ListOK(m, more)
    /\ \A i \in DOMAIN more : i + 1 \in DOMAIN as /\ more[i] = as[i + 1]
    /\ \A i \in DOMAIN more : more[i].field # a.field
    /\ Assigned(Done(s, a), more) = Assigned(s, as)
    /\ 1 \in DOMAIN as /\ as[1] = a
    /\ \A i \in DOMAIN as : i = 1 \/ (i - 1 \in DOMAIN more /\ more[i - 1] = as[i])

LEMMA AssignedStep ==
    ASSUME NEW m, NEW s, SessionOK(m, s), NEW as, ListOK(m, as), as # <<>>
    PROVE  Unfolds(m, s, as, Head(as), Tail(as))
<1> DEFINE a == Head(as)
           more == Tail(as)
<1>0. PICK S : as \in Seq(S)
  BY DEF ListOK
<1>1. /\ a = as[1] /\ 1 \in DOMAIN as /\ more \in Seq(S) /\ Len(as) \in Nat \ {0}
      /\ DOMAIN more = 1..Len(as) - 1 /\ DOMAIN as = 1..Len(as)
  BY <1>0, Parts
<1>2. \A i \in DOMAIN more : i + 1 \in DOMAIN as /\ more[i] = as[i + 1]
  BY <1>0, Parts
<1> HIDE DEF more, a
<1>3. ValueOK(m, a)
  BY <1>1 DEF ListOK
<1>4. ListOK(m, more)
  <2>1. \E U : more \in Seq(U)
    BY <1>1
  <2>2. \A i \in DOMAIN more : ValueOK(m, more[i])
    BY <1>2 DEF ListOK
  <2>3. ASSUME NEW i \in DOMAIN more, NEW j \in DOMAIN more, more[i].field = more[j].field PROVE i = j
    <3>1. i + 1 = j + 1
      BY <1>2, <2>3 DEF ListOK
    <3> QED BY <1>1, <3>1
  <2> QED BY <2>1, <2>2, <2>3 DEF ListOK
<1>5. \A i \in DOMAIN more : more[i].field # a.field
  <2> SUFFICES ASSUME NEW i \in DOMAIN more, as[i + 1].field = as[1].field PROVE FALSE
    BY <1>1, <1>2
  <2>1. i + 1 = 1
    BY <1>1, <1>2 DEF ListOK
  <2> QED BY <1>1, <2>1
<1>6. \A i \in DOMAIN as : i = 1 \/ (i - 1 \in DOMAIN more /\ more[i - 1] = as[i])
  <2> SUFFICES ASSUME NEW i \in DOMAIN as, i # 1 PROVE i - 1 \in DOMAIN more /\ more[i - 1] = as[i]
    OBVIOUS
  <2>1. i - 1 \in DOMAIN more /\ (i - 1) + 1 = i
    BY <1>1, Indices, Zenon
  <2> QED BY <1>2, <2>1
<1> DEFINE d == Done(s, a)
           t == Assigned(s, as)
           u == Assigned(d, more)
<1>7. SessionOK(m, d) /\ d[a.field] = a.value /\ Apart(s, a.field, d)
  BY <1>3, DoneOK, Zenon
<1>8. SessionOK(m, t) /\ SessionOK(m, u)
  BY <1>4, <1>7, AssignedOK
<1> HIDE DEF d
<1>9. Gives(as, t) /\ Keeps(s, as, t)
  BY AssignedIs, Zenon
<1>10. Gives(more, u) /\ Keeps(d, more, u)
  BY <1>4, <1>7, AssignedIs, Zenon
<1> HIDE DEF t, u
<1>11. ASSUME NEW f \in Names PROVE t[f] = u[f]
  <2>1. CASE f = a.field
    <3>1. t[f] = a.value
      BY <1>1, <1>9, <2>1 DEF Gives
    <3>2. u[f] = d[f]
      BY <1>5, <1>10, <2>1 DEF Keeps
    <3> QED BY <1>7, <2>1, <3>1, <3>2
  <2>2. CASE \E i \in DOMAIN more : more[i].field = f
    <3>1. PICK i \in DOMAIN more : more[i].field = f
      BY <2>2
    <3> QED BY <1>2, <1>9, <1>10, <3>1 DEF Gives
  <2>3. CASE f # a.field /\ \A i \in DOMAIN more : more[i].field # f
    <3>1. \A i \in DOMAIN as : as[i].field # f
      BY <1>1, <1>6, <2>3
    <3> QED BY <1>7, <1>9, <1>10, <2>3, <3>1 DEF Keeps, Apart
  <2> QED BY <2>1, <2>2, <2>3
<1>12. t = u
  BY <1>8, <1>11, SameSession
<1>13. Unfolds(m, s, as, a, more)
  BY <1>1, <1>2, <1>3, <1>4, <1>5, <1>6, <1>12 DEF Unfolds, t, u, d
<1> QED BY <1>13 DEF more, a

(* Lists of one, two and three assignments.                                *)
LEMMA ListOne ==
    ASSUME NEW m, NEW a, ValueOK(m, a)
    PROVE  ListOK(m, <<a>>)
<1>1. <<a>> \in Seq({a})
  OBVIOUS
<1>2. \E S : <<a>> \in Seq(S)
  BY <1>1, Zenon
<1> QED BY <1>2 DEF ListOK

LEMMA ListTwo ==
    ASSUME NEW m, NEW a, NEW b, ValueOK(m, a), ValueOK(m, b), a.field # b.field
    PROVE  ListOK(m, <<a, b>>)
<1>1. <<a, b>> \in Seq({a, b})
  OBVIOUS
<1>2. \E S : <<a, b>> \in Seq(S)
  BY <1>1, Zenon
<1>3. \A i \in DOMAIN <<a, b>> : (i = 1 /\ <<a, b>>[i] = a) \/ (i = 2 /\ <<a, b>>[i] = b)
  OBVIOUS
<1> DEFINE as == <<a, b>>
<1> HIDE DEF as
<1>4. \A i, j \in DOMAIN as : as[i].field = as[j].field => i = j
  BY <1>3 DEF as
<1>5. \A i \in DOMAIN as : ValueOK(m, as[i])
  BY <1>3 DEF as
<1>6. ListOK(m, as)
  BY <1>2, <1>4, <1>5 DEF ListOK, as
<1> QED BY <1>6 DEF as

LEMMA ListThree ==
    ASSUME NEW m, NEW a, NEW b, NEW c, ValueOK(m, a), ValueOK(m, b), ValueOK(m, c),
           a.field # b.field, a.field # c.field, b.field # c.field
    PROVE  ListOK(m, <<a, b, c>>)
<1>1. <<a, b, c>> \in Seq({a, b, c})
  OBVIOUS
<1>2. \E S : <<a, b, c>> \in Seq(S)
  BY <1>1, Zenon
<1>3. \A i \in DOMAIN <<a, b, c>> : \/ i = 1 /\ <<a, b, c>>[i] = a
                                    \/ i = 2 /\ <<a, b, c>>[i] = b
                                    \/ i = 3 /\ <<a, b, c>>[i] = c
  OBVIOUS
<1> DEFINE as == <<a, b, c>>
<1> HIDE DEF as
<1>4. \A i, j \in DOMAIN as : as[i].field = as[j].field => i = j
  BY <1>3 DEF as
<1>5. \A i \in DOMAIN as : ValueOK(m, as[i])
  BY <1>3 DEF as
<1>6. ListOK(m, as)
  BY <1>2, <1>4, <1>5 DEF ListOK, as
<1> QED BY <1>6 DEF as

LEMMA AssignedOne ==
    ASSUME NEW m, NEW s, SessionOK(m, s), NEW a, ValueOK(m, a)
    PROVE  Assigned(s, <<a>>) = Done(s, a)
<1> DEFINE as == <<a>>
<1>1. as # <<>> /\ Head(as) = a /\ Tail(as) = <<>>
  OBVIOUS
<1>l. ListOK(m, as)
  BY ListOne, Zenon
<1> HIDE DEF as
<1>0. Unfolds(m, s, as, Head(as), Tail(as))
  BY <1>1, <1>l, AssignedStep
<1>2. Assigned(Done(s, a), <<>>) = Assigned(s, as)
  BY <1>0, <1>1 DEF Unfolds
<1>3. Assigned(Done(s, a), <<>>) = Done(s, a)
  BY DoneOK, AssignedNone
<1> QED BY <1>1, <1>2, <1>3 DEF as

LEMMA AssignedTwo ==
    ASSUME NEW m, NEW s, SessionOK(m, s), NEW a, NEW b, ValueOK(m, a), ValueOK(m, b), a.field # b.field
    PROVE  Assigned(s, <<a, b>>) = Done(Done(s, a), b)
<1> DEFINE as == <<a, b>>
<1>1. as # <<>> /\ Head(as) = a /\ Tail(as) = <<b>>
  OBVIOUS
<1>l. ListOK(m, as)
  BY ListTwo, Zenon
<1> HIDE DEF as
<1>0. Unfolds(m, s, as, Head(as), Tail(as))
  BY <1>1, <1>l, AssignedStep
<1>2. Assigned(Done(s, a), <<b>>) = Assigned(s, as)
  BY <1>0, <1>1 DEF Unfolds
<1>3. Assigned(Done(s, a), <<b>>) = Done(Done(s, a), b)
  BY DoneOK, AssignedOne
<1> QED BY <1>1, <1>2, <1>3 DEF as

LEMMA AssignedThree ==
    ASSUME NEW m, NEW s, SessionOK(m, s), NEW a, NEW b, NEW c,
           ValueOK(m, a), ValueOK(m, b), ValueOK(m, c),
           a.field # b.field, a.field # c.field, b.field # c.field
    PROVE  Assigned(s, <<a, b, c>>) = Done(Done(Done(s, a), b), c)
<1> DEFINE as == <<a, b, c>>
<1>1. as # <<>> /\ Head(as) = a /\ Tail(as) = <<b, c>>
  OBVIOUS
<1>l. ListOK(m, as)
  BY ListThree, Zenon
<1> HIDE DEF as
<1>0. Unfolds(m, s, as, Head(as), Tail(as))
  BY <1>1, <1>l, AssignedStep
<1>2. Assigned(Done(s, a), <<b, c>>) = Assigned(s, as)
  BY <1>0, <1>1 DEF Unfolds
<1>3. Assigned(Done(s, a), <<b, c>>) = Done(Done(Done(s, a), b), c)
  BY DoneOK, AssignedTwo
<1> QED BY <1>1, <1>2, <1>3 DEF as

(* The same of the lists that lines make.                                  *)
With(s, f, v) == [s EXCEPT ![f] = v]

LEMMA WithIs ==
    ASSUME NEW s, NEW f, NEW v
    PROVE  Done(s, Assign(f, v)) = With(s, f, v) /\ Assign(f, v).field = f /\ Assign(f, v).value = v
  BY DEF Done, Assign, With

LEMMA WithOne ==
    ASSUME NEW m, NEW s, SessionOK(m, s), NEW f, NEW v, ValueOK(m, Assign(f, v))
    PROVE  /\ ListOK(m, <<Assign(f, v)>>)
           /\ Assigned(s, <<Assign(f, v)>>) = With(s, f, v)
<1> DEFINE a == Assign(f, v)
<1>1. Done(s, a) = With(s, f, v)
  BY WithIs
<1> HIDE DEF a
<1>2. ListOK(m, <<a>>) /\ Assigned(s, <<a>>) = Done(s, a)
  BY ListOne, AssignedOne DEF a
<1> QED BY <1>1, <1>2 DEF a

LEMMA WithTwo ==
    ASSUME NEW m, NEW s, SessionOK(m, s), NEW f, NEW v, NEW g, NEW w, f # g,
           ValueOK(m, Assign(f, v)), ValueOK(m, Assign(g, w))
    PROVE  /\ ListOK(m, <<Assign(f, v), Assign(g, w)>>)
           /\ Assigned(s, <<Assign(f, v), Assign(g, w)>>) = With(With(s, f, v), g, w)
<1> DEFINE a == Assign(f, v)
           b == Assign(g, w)
<1>1. Done(Done(s, a), b) = With(With(s, f, v), g, w) /\ a.field # b.field
  BY WithIs
<1>3. ValueOK(m, a) /\ ValueOK(m, b)
  OBVIOUS
<1> HIDE DEF a, b
<1>2. ListOK(m, <<a, b>>) /\ Assigned(s, <<a, b>>) = Done(Done(s, a), b)
  BY <1>1, <1>3, ListTwo, AssignedTwo
<1> QED BY <1>1, <1>2 DEF a, b

LEMMA WithThree ==
    ASSUME NEW m, NEW s, SessionOK(m, s), NEW f, NEW v, NEW g, NEW w, NEW h, NEW x,
           f # g, f # h, g # h,
           ValueOK(m, Assign(f, v)), ValueOK(m, Assign(g, w)), ValueOK(m, Assign(h, x))
    PROVE  /\ ListOK(m, <<Assign(f, v), Assign(g, w), Assign(h, x)>>)
           /\ Assigned(s, <<Assign(f, v), Assign(g, w), Assign(h, x)>>)
                = With(With(With(s, f, v), g, w), h, x)
<1> DEFINE a == Assign(f, v)
           b == Assign(g, w)
           c == Assign(h, x)
<1>1. /\ Done(Done(Done(s, a), b), c) = With(With(With(s, f, v), g, w), h, x)
      /\ a.field # b.field /\ a.field # c.field /\ b.field # c.field
  BY WithIs
<1>3. ValueOK(m, a) /\ ValueOK(m, b) /\ ValueOK(m, c)
  OBVIOUS
<1> HIDE DEF a, b, c
<1>2. ListOK(m, <<a, b, c>>) /\ Assigned(s, <<a, b, c>>) = Done(Done(Done(s, a), b), c)
  BY <1>1, <1>3, ListThree, AssignedThree
<1> QED BY <1>1, <1>2 DEF a, b, c

(* Lines that name something have a name.                                  *)
MenuOK(m) ==
    \A l \in m :
        /\ l.cmd = "interface" => l.arg \in Ports
        /\ l.cmd \in {"router", "access-list", "class-map", "policy-map", "class", "crypto map seq"} =>
              l.arg # None

LEMMA Values ==
    ASSUME NEW m
    PROVE  /\ \A v \in Modes : ValueOK(m, Assign("Mode", v))
           /\ \A v \in Ports \cup {None} : ValueOK(m, Assign("Iface", v))
           /\ \A v \in Protos(m) \cup {None} : ValueOK(m, Assign("RouterProto", v))
           /\ \A v \in Args(m) : /\ ValueOK(m, Assign("ClassMapName", v))
                                 /\ ValueOK(m, Assign("PolicyMapName", v))
                                 /\ ValueOK(m, Assign("PolicyClassName", v))
  BY DEF ValueOK, Assign, Names

LEMMA ModeValues ==
    ASSUME NEW m, NEW l \in m, MenuOK(m)
    PROVE  /\ {"exec", "privileged", "config", "config-if", "config-router",
               "config-class-map", "config-policy-map", "config-policy-class"} \subseteq Modes
           /\ None \in Args(m) /\ l.arg \in Args(m)
           /\ {"isakmp", "crypto"} \subseteq Protos(m)
           /\ l.cmd = "router" => l.arg \in Protos(m)
           /\ l.cmd = "interface" => l.arg \in Ports
  BY DEF Modes, Args, Protos, MenuOK

(* What Execute's switch assigns, and the session after it.                *)
Leaves(s, l, as, t) ==
    \E v \in {"exec", "privileged", "config"} :
        /\ as = <<Assign("Mode", v)>> /\ t = With(s, "Mode", v)
        /\ l.cmd = "exit" => s.Mode \in {"exec", "privileged", "config"}
Selected(s, l, as, t) ==
    /\ as = <<Assign("Mode", "config-if"), Assign("Iface", l.arg)>>
    /\ t = With(With(s, "Mode", "config-if"), "Iface", l.arg)
Routes(s, l, as, t) ==
    /\ as = <<Assign("Mode", "config-router"), Assign("RouterProto", l.arg)>>
    /\ t = With(With(s, "Mode", "config-router"), "RouterProto", l.arg)
LeavesPort(s, as, t) ==
    \E v \in {"privileged", "config"} :
        /\ as = <<Assign("Mode", v), Assign("Iface", None), Assign("RouterProto", None)>>
        /\ t = With(With(With(s, "Mode", v), "Iface", None), "RouterProto", None)
LeavesMap(s, as, t) ==
    /\ as = <<Assign("Mode", "config"), Assign("PolicyMapName", None), Assign("ClassMapName", None)>>
    /\ t = With(With(With(s, "Mode", "config"), "PolicyMapName", None), "ClassMapName", None)
LeavesClass(s, as, t) ==
    /\ s.Mode = "config-policy-class"
    /\ as = <<Assign("Mode", "config-policy-map"), Assign("PolicyClassName", None)>>
    /\ t = With(With(s, "Mode", "config-policy-map"), "PolicyClassName", None)

Switches(s, l, as, t) ==
    \/ l.cmd \in {"enable", "configure", "exit"} /\ Leaves(s, l, as, t)
    \/ l.cmd = "interface" /\ Selected(s, l, as, t)
    \/ l.cmd = "router" /\ Routes(s, l, as, t)
    \/ l.cmd \in {"end", "exit"} /\ LeavesPort(s, as, t)
    \/ l.cmd = "exit" /\ LeavesMap(s, as, t)
    \/ l.cmd = "exit" /\ LeavesClass(s, as, t)
    \/ l.cmd \notin SessionCmds \cup {"router"} /\ as = <<>> /\ t = s

LEMMA SwitchIs ==
    ASSUME NEW m, NEW s, SessionOK(m, s), NEW l \in m, MenuOK(m), NEW as, as = Switch(s.Mode, l)
    PROVE  ListOK(m, as) /\ Switches(s, l, as, Assigned(s, as))
<1>1. s.Mode \in Modes
  BY DEF SessionOK
<1>2. CASE l.cmd \in {"enable", "configure"} \/ (l.cmd = "exit" /\ s.Mode \in {"exec", "privileged", "config"})
  <2>1. PICK v \in {"exec", "privileged", "config"} : as = <<Assign("Mode", v)>>
    BY <1>2 DEF Switch, Exit
  <2>2. ListOK(m, as) /\ Assigned(s, as) = With(s, "Mode", v)
    BY <2>1, WithOne, Values, ModeValues
  <2>3. Leaves(s, l, as, Assigned(s, as))
    BY <1>2, <2>1, <2>2 DEF Leaves
  <2> QED BY <1>2, <2>2, <2>3 DEF Switches
<1>3. CASE l.cmd = "interface"
  <2>1. as = <<Assign("Mode", "config-if"), Assign("Iface", l.arg)>>
    BY <1>3 DEF Switch
  <2>2. ListOK(m, as) /\ Assigned(s, as) = With(With(s, "Mode", "config-if"), "Iface", l.arg)
    BY <1>3, <2>1, WithTwo, Values, ModeValues
  <2> QED BY <1>3, <2>1, <2>2 DEF Switches, Selected
<1>4. CASE l.cmd = "router"
  <2>1. as = <<Assign("Mode", "config-router"), Assign("RouterProto", l.arg)>>
    BY <1>4 DEF Switch
  <2>2. ListOK(m, as) /\ Assigned(s, as) = With(With(s, "Mode", "config-router"), "RouterProto", l.arg)
    BY <1>4, <2>1, WithTwo, Values, ModeValues
  <2> QED BY <1>4, <2>1, <2>2 DEF Switches, Routes
<1>5. CASE l.cmd = "end" \/ (l.cmd = "exit" /\ s.Mode \in {"config-if", "config-router"})
  <2>1. PICK v \in {"privileged", "config"} :
            as = <<Assign("Mode", v), Assign("Iface", None), Assign("RouterProto", None)>>
    BY <1>5 DEF Switch, Exit
  <2>2. ListOK(m, as) /\ Assigned(s, as) = With(With(With(s, "Mode", v), "Iface", None), "RouterProto", None)
    <3>1. /\ ValueOK(m, Assign("Mode", v)) /\ ValueOK(m, Assign("Iface", None))
          /\ ValueOK(m, Assign("RouterProto", None))
      BY Values, ModeValues
    <3> QED BY <2>1, <3>1, WithThree
  <2>3. LeavesPort(s, as, Assigned(s, as))
    BY <2>1, <2>2 DEF LeavesPort
  <2> QED BY <1>5, <2>2, <2>3 DEF Switches
<1>6. CASE l.cmd = "exit" /\ s.Mode \in {"config-policy-map", "config-class-map"}
  <2>1. as = <<Assign("Mode", "config"), Assign("PolicyMapName", None), Assign("ClassMapName", None)>>
    BY <1>6 DEF Switch, Exit
  <2>2. ListOK(m, as)
        /\ Assigned(s, as) = With(With(With(s, "Mode", "config"), "PolicyMapName", None), "ClassMapName", None)
    <3>1. /\ ValueOK(m, Assign("Mode", "config")) /\ ValueOK(m, Assign("PolicyMapName", None))
          /\ ValueOK(m, Assign("ClassMapName", None))
      BY Values, ModeValues
    <3> QED BY <2>1, <3>1, WithThree
  <2> QED BY <1>6, <2>1, <2>2 DEF Switches, LeavesMap
<1>7. CASE l.cmd = "exit" /\ s.Mode = "config-policy-class"
  <2>1. as = <<Assign("Mode", "config-policy-map"), Assign("PolicyClassName", None)>>
    BY <1>7 DEF Switch, Exit
  <2>2. ListOK(m, as) /\ Assigned(s, as) = With(With(s, "Mode", "config-policy-map"), "PolicyClassName", None)
    BY <2>1, WithTwo, Values, ModeValues
  <2> QED BY <1>7, <2>1, <2>2 DEF Switches, LeavesClass
<1>8. CASE l.cmd \notin SessionCmds \cup {"router"}
  <2>1. as = <<>>
    BY <1>8 DEF Switch, SessionCmds
  <2>2. ListOK(m, as) /\ Assigned(s, as) = s
    BY <2>1, AssignedNone
  <2> QED BY <1>8, <2>1, <2>2 DEF Switches
<1> QED BY <1>1, <1>2, <1>3, <1>4, <1>5, <1>6, <1>7, <1>8 DEF SessionCmds, Modes

-----------------------------------------------------------------------------
(* What a handler does, whichever of the chain takes the line.             *)

(* The ports a line may be about, and the values it may set.               *)
PortsFor(s) == {s.Iface, RouterDefault, SwitchDefault}
Sets(s, d, l, e) ==
    \E p \in PortsFor(s), a \in Attrs, v \in {l.arg, l.arg[2], TRUE, FALSE} :
        /\ e = SetPort(d, p, a, v)
        /\ a \in {"in", "out"} => l.cmd = "ip access-group" /\ v = l.arg[2]
Pools(s, d, l, e) ==
    \E f \in {"network", "router"} : e = SetPool(d, PoolName(s), f, l.arg)
Actions(s, d, l, e) ==
    \/ e = AppendPolicyClass(d, s.PolicyMapName, s.PolicyClassName, <<l.arg>>)
    \/ e = AppendPolicyClass(d, s.PolicyMapName, l.arg, <<>>)
    \/ e = [d EXCEPT !.policies = Put(@, l.arg, <<>>)]
Matches(s, d, l, e) ==
    \E n, v \in {s.ClassMapName, l.arg, None} : e = [d EXCEPT !.classes = Put(@, n, v)]

Effect(s, d, l, e) ==
    \/ e = d
    \/ Sets(s, d, l, e)
    \/ e = SetGlobal(d, l)
    \/ Pools(s, d, l, e)
    \/ Actions(s, d, l, e)
    \/ Matches(s, d, l, e)

(* The lists of assignments a handler makes.                               *)
Selects(l, as) ==
    \/ l.cmd = "class" /\ as = <<Assign("Mode", "config-policy-class"), Assign("PolicyClassName", l.arg)>>
    \/ l.cmd = "class-map" /\ as = <<Assign("Mode", "config-class-map"), Assign("ClassMapName", l.arg)>>
    \/ l.cmd = "policy-map" /\ as = <<Assign("Mode", "config-policy-map"), Assign("PolicyMapName", l.arg)>>
    \/ l.cmd = "crypto isakmp policy" /\ as = <<Assign("RouterProto", "isakmp")>>
    \/ l.cmd = "crypto map seq"
       /\ as = <<Assign("PolicyMapName", l.arg), Assign("RouterProto", "crypto"),
                 Assign("Mode", "config-policy-map")>>

(* What it reads.                                                          *)
Reads(l, as, rs) ==
    \/ rs = <<>>
    \/ as = <<>> /\ rs \in {<<"Iface">>, <<"ClassMapName">>, <<"RouterProto">>, <<"PolicyMapName">>,
                            <<"PolicyClassName", "PolicyMapName">>}
    \/ l.cmd = "class" /\ rs = <<"PolicyMapName">>

HandledAs(s, d, l, r) ==
    /\ r.assigns = <<>> \/ Selects(l, r.assigns)
    /\ Reads(l, r.assigns, r.reads)
    /\ Effect(s, d, l, r.dev)

(* A setting of a port, as the handlers make it.                           *)
LEMMA PortSet ==
    ASSUME NEW s, NEW d, NEW l, NEW p \in PortsFor(s), NEW a \in Attrs,
           NEW v \in {l.arg, l.arg[2], TRUE, FALSE},
           a \in {"in", "out"} => l.cmd = "ip access-group" /\ v = l.arg[2]
    PROVE  Sets(s, d, l, SetPort(d, p, a, v))
  BY DEF Sets

LEMMA AnyPort ==
    ASSUME NEW s
    PROVE  /\ OrDefault(s.Iface, RouterDefault) \in PortsFor(s)
           /\ OrDefault(s.Iface, SwitchDefault) \in PortsFor(s)
           /\ s.Iface \in PortsFor(s) /\ RouterDefault \in PortsFor(s)
  BY DEF OrDefault, PortsFor

LEMMA AttrsAre ==
    /\ "ip address" \in Attrs /\ "shutdown" \in Attrs /\ "ip nat outside" \in Attrs
    /\ "in" \in Attrs /\ "out" \in Attrs /\ "standby" \in Attrs
    /\ "service-policy" \in Attrs /\ "crypto map" \in Attrs /\ "switchport" \in Attrs
    /\ "mls" \in Attrs
  BY DEF Attrs

LEMMA ConfigEffect ==
    ASSUME NEW s, NEW d, NEW l
    PROVE  HandledAs(s, d, l, dispatchConfig(s, d, l))
<1> DEFINE at == OrDefault(s.Iface, RouterDefault)
           port == OrDefault(s.Iface, SwitchDefault)
<1>1. \A p \in PortsFor(s), a \in Attrs \ {"in", "out"}, v \in {l.arg, TRUE, FALSE} :
          Sets(s, d, l, SetPort(d, p, a, v))
  BY DEF Sets
<1>2. l.cmd = "ip access-group" =>
          /\ Sets(s, d, l, SetPort(d, at, "in", l.arg[2]))
          /\ Sets(s, d, l, SetPort(d, at, "out", l.arg[2]))
  BY PortSet, AnyPort, AttrsAre
<1>3. /\ Sets(s, d, l, SetPort(d, at, "shutdown", FALSE))
      /\ Sets(s, d, l, SetPort(d, at, "shutdown", TRUE))
      /\ Sets(s, d, l, SetPort(d, at, "ip nat outside", TRUE))
      /\ Sets(s, d, l, SetPort(d, at, "standby", l.arg))
      /\ Sets(s, d, l, SetPort(d, port, "switchport", l.arg))
      /\ Sets(s, d, l, SetPort(d, s.Iface, "ip address", l.arg))
      /\ Sets(s, d, l, SetPort(d, s.Iface, "crypto map", l.arg))
  BY <1>1, AnyPort, AttrsAre
<1>4. /\ Effect(s, d, l, d) /\ Effect(s, d, l, SetGlobal(d, l))
      /\ \A e : Sets(s, d, l, e) => Effect(s, d, l, e)
  BY DEF Effect
<1>5. /\ Effect(s, d, l, execNo(s, d)) /\ Effect(s, d, l, execSwitchport(s, d, l))
      /\ Effect(s, d, l, execVLAN(d, l)) /\ Effect(s, d, l, execStandby(s, d, l))
      /\ Effect(s, d, l, execNetwork(d, l)) /\ Effect(s, d, l, execDHCPExclusions(d, l))
  BY <1>3, <1>4 DEF execNo, execSwitchport, execVLAN, execStandby, execNetwork, execDHCPExclusions
<1>6. l.cmd = "ip access-group" => Effect(s, d, l, AccessGroup(s, d, l))
  BY <1>2, <1>4 DEF AccessGroup
<1>7. /\ Effect(s, d, l, SetPort(d, s.Iface, "ip address", l.arg))
      /\ Effect(s, d, l, SetPort(d, s.Iface, "crypto map", l.arg))
      /\ Effect(s, d, l, SetPort(d, at, "shutdown", TRUE))
      /\ Effect(s, d, l, SetPort(d, at, "ip nat outside", TRUE))
  BY <1>3, <1>4
<1>8. Effect(s, d, l, ConfigureRouter(s, d, l))
  BY <1>4, <1>5, <1>6, <1>7 DEF ConfigureRouter
<1>9. Effect(s, d, l, dispatchConfig(s, d, l).dev)
  BY <1>4, <1>5, <1>8 DEF dispatchConfig, Does
<1>10. /\ dispatchConfig(s, d, l).assigns = <<>>
       /\ dispatchConfig(s, d, l).reads \in {<<>>, <<"Iface">>}
  BY DEF dispatchConfig, Does
<1> QED
  BY <1>9, <1>10 DEF HandledAs, Reads

LEMMA ExtendedEffect ==
    ASSUME NEW s, NEW d, NEW l
    PROVE  /\ l.cmd \notin {"set peer", "match address"} => HandledAs(s, d, l, dispatchExtended(s, d, l))
           /\ HandledAs(s, d, l, execClassMapSub(s, d, l))
           /\ HandledAs(s, d, l, execPolicyMapSub(s, d, l))
<1> DEFINE at == OrDefault(s.Iface, RouterDefault)
           port == OrDefault(s.Iface, SwitchDefault)
           same(rs, e) == HandledAs(s, d, l, Does(<<>>, rs, e))
<1>1. /\ Sets(s, d, l, SetPort(d, at, "shutdown", FALSE))
      /\ Sets(s, d, l, SetPort(d, at, "service-policy", l.arg))
      /\ Sets(s, d, l, SetPort(d, port, "mls", TRUE))
  BY PortSet, AnyPort, AttrsAre
<1>2. /\ Pools(s, d, l, SetPool(d, PoolName(s), "router", l.arg))
      /\ Pools(s, d, l, SetPool(d, PoolName(s), "network", l.arg))
  BY DEF Pools
<1>3. HandledAs(s, d, l, Nothing(d)) /\ same(<<>>, d) /\ same(<<>>, SetGlobal(d, l))
  BY DEF HandledAs, Effect, Reads, Does, Nothing
<1>4. /\ same(<<"Iface">>, execNo(s, d))
      /\ HandledAs(s, d, l, execServicePolicy(s, d, l)) /\ HandledAs(s, d, l, execMLS(s, d))
      /\ HandledAs(s, d, l, execDHCPPoolOption(s, d, l))
      /\ HandledAs(s, d, l, execDHCPPoolNetwork(s, d, l))
  BY <1>1, <1>2
  DEF HandledAs, Effect, Reads, Does, execNo, execServicePolicy, execMLS, execDHCPPoolOption, execDHCPPoolNetwork
<1>5. HandledAs(s, d, l, execClassMapSub(s, d, l))
  BY <1>3 DEF HandledAs, Effect, Matches, Reads, Does, execClassMapSub
<1>6. HandledAs(s, d, l, execPolicyMapSub(s, d, l))
  <2>1. same(<<"PolicyClassName", "PolicyMapName">>,
             AppendPolicyClass(d, s.PolicyMapName, s.PolicyClassName, <<l.arg>>))
    BY DEF HandledAs, Effect, Actions, Reads, Does
  <2>2. ASSUME l.cmd = "class", d.kind = "router"
        PROVE  HandledAs(s, d, l, execPolicyMapSub(s, d, l))
    BY <2>2 DEF HandledAs, Selects, Effect, Actions, Reads, Does, execPolicyMapSub
  <2> HIDE DEF same
  <2> QED
    BY <1>3, <2>1, <2>2 DEF execPolicyMapSub, same
<1>7. /\ l.cmd = "class-map" => HandledAs(s, d, l, execClassMap(s, d, l))
      /\ l.cmd = "policy-map" => HandledAs(s, d, l, execPolicyMap(s, d, l))
  BY DEF HandledAs, Selects, Effect, Matches, Actions, Reads, Does, execClassMap, execPolicyMap
<1>8. \/ HandledAs(s, d, l, execCrypto(s, d, l))
      \/ l.cmd \in {"set peer", "match address"}
  BY <1>3 DEF HandledAs, Selects, Effect, Reads, Does, execCrypto
<1>9. l.cmd \notin {"set peer", "match address"} => HandledAs(s, d, l, dispatchExtended(s, d, l))
  BY <1>3, <1>4, <1>7, <1>8 DEF dispatchExtended, ExtendRouter
<1> QED
  BY <1>5, <1>6, <1>9

LEMMA ExecutorEffect ==
    ASSUME NEW s, NEW d, NEW l
    PROVE  HandledAs(s, d, l, Executor(d, l))
<1>1. Sets(s, d, l, SetPort(d, RouterDefault, "ip address", l.arg))
  BY PortSet, AnyPort, AttrsAre
<1>2. /\ Effect(s, d, l, d) /\ Effect(s, d, l, SetGlobal(d, l))
      /\ \A e : Sets(s, d, l, e) => Effect(s, d, l, e)
  BY DEF Effect
<1>3. Effect(s, d, l, Executor(d, l).dev)
  BY <1>1, <1>2 DEF Executor, Does, execIP, execRouter, execACL, execNAT
<1>4. Executor(d, l).assigns = <<>> /\ Executor(d, l).reads = <<>>
  BY DEF Executor, Does
<1> QED
  BY <1>3, <1>4 DEF HandledAs, Reads

(* The entries of a crypto map are typed where dispatchExtended is not     *)
(* asked.                                                                  *)
Takes(h, l) == h = "dispatchExtended" => l.cmd \notin {"set peer", "match address"}

LEMMA RunEffect ==
    ASSUME NEW s, NEW d, NEW l, NEW h \in Handlers, Takes(h, l)
    PROVE  HandledAs(s, d, l, Run(h, s, d, l))
  BY ConfigEffect, ExtendedEffect, ExecutorEffect DEF Run, Takes, Handlers

LEMMA HandlerTakes ==
    ASSUME NEW mode, NEW kind, NEW config, NEW l
    PROVE  LET h == Handler(mode, kind, config, l) IN h \in Handlers /\ Takes(h, l)
<1>1. ASSUME ExtendedHandles(mode["extended"], kind, l)
      PROVE  l.cmd \notin {"set peer", "match address"}
  BY <1>1 DEF ExtendedHandles, CryptoCmds
<1> DEFINE h == Handler(mode, kind, config, l)
<1>2. h \in Handlers /\ (h = "dispatchExtended" => ExtendedHandles(mode["extended"], kind, l))
  BY DEF Handler, Handlers
<1> QED
  BY <1>1, <1>2 DEF Takes

-----------------------------------------------------------------------------
(* What is always true of a device. m is the menu.                         *)

Typed(m) == {l.arg[2] : l \in {l \in m : l.cmd = "ip access-group"}}
Class(m) == [class : Args(m), actions : Seq(Args(m))]
Places == Ports \cup {None}

Once(pm) == \A i, j \in DOMAIN pm : pm[i].class = pm[j].class => i = j

Fields(d) ==
    d = [kind |-> d.kind, port |-> d.port, global |-> d.global, classes |-> d.classes,
         policies |-> d.policies, pools |-> d.pools, entries |-> d.entries]
PortsOK(m, d) ==
    /\ d.port = [p \in Places |-> d.port[p]]
    /\ \A p \in Places :
         /\ d.port[p] = [a \in Attrs |-> d.port[p][a]]
         /\ d.port[p]["in"] \in Typed(m) \cup {None}
         /\ d.port[p]["out"] \in Typed(m) \cup {None}
PoliciesOK(m, d) ==
    \A n \in DOMAIN d.policies : d.policies[n] \in Seq(Class(m)) /\ Once(d.policies[n])
DeviceOK(m, d) ==
    /\ Fields(d)
    /\ d.kind \in Kinds
    /\ d.global \subseteq m
    /\ PortsOK(m, d)
    /\ PoliciesOK(m, d)
    /\ DOMAIN d.pools \subseteq {"LAN"} \cup Protos(m)
    /\ d.entries = {}

LEMMA FreshOK ==
    ASSUME NEW m, NEW k \in Kinds
    PROVE  DeviceOK(m, Fresh(k))
<1>1. DOMAIN <<>> = {}
  OBVIOUS
<1> QED
  BY <1>1, AttrsAre DEF DeviceOK, Fields, PortsOK, PoliciesOK, Fresh, Places

LEMMA SetPortOK ==
    ASSUME NEW m, NEW d, DeviceOK(m, d), NEW p, NEW a \in Attrs, NEW v,
           a \in {"in", "out"} => v \in Typed(m)
    PROVE  DeviceOK(m, SetPort(d, p, a, v))
<1> DEFINE e == SetPort(d, p, a, v)
<1>1. /\ Fields(e) /\ e.kind = d.kind /\ e.global = d.global /\ e.policies = d.policies
      /\ e.pools = d.pools /\ e.entries = d.entries
      /\ e.port = [d.port EXCEPT ![p] = [d.port[p] EXCEPT ![a] = v]]
  BY DEF SetPort, DeviceOK, Fields
<1>2. PortsOK(m, e)
  <2>1. PortsOK(m, d)
    BY DEF DeviceOK
  <2>2. e.port = [q \in Places |-> IF q = p THEN [d.port[p] EXCEPT ![a] = v] ELSE d.port[q]]
    BY <1>1, <2>1 DEF PortsOK
  <2>3. ASSUME NEW q \in Places
        PROVE  /\ e.port[q] = [b \in Attrs |-> e.port[q][b]]
               /\ e.port[q]["in"] \in Typed(m) \cup {None}
               /\ e.port[q]["out"] \in Typed(m) \cup {None}
    <3>1. CASE q # p
      BY <3>1, <2>1, <2>2 DEF PortsOK
    <3>2. CASE q = p
      <4>1. /\ d.port[q] = [b \in Attrs |-> d.port[q][b]]
            /\ d.port[q]["in"] \in Typed(m) \cup {None}
            /\ d.port[q]["out"] \in Typed(m) \cup {None}
        BY <2>1 DEF PortsOK
      <4>2. e.port[q] = [b \in Attrs |-> IF b = a THEN v ELSE d.port[q][b]]
        BY <3>2, <2>2, <4>1
      <4> QED
        BY <4>1, <4>2, AttrsAre
    <3> QED
      BY <3>1, <3>2
  <2> QED
    BY <2>2, <2>3 DEF PortsOK
<1> QED
  BY <1>1, <1>2 DEF DeviceOK, PoliciesOK

(* A policy map with one more class, or more actions in one.               *)
LEMMA AppendPolicyClassOK ==
    ASSUME NEW m, NEW d, DeviceOK(m, d), NEW n, NEW c \in Args(m),
           NEW acts \in Seq(Args(m))
    PROVE  DeviceOK(m, AppendPolicyClass(d, n, c, acts))
<1> DEFINE pm == IF n \in DOMAIN d.policies THEN d.policies[n] ELSE <<>>
           more == [i \in DOMAIN pm |-> IF pm[i].class = c
                                        THEN [pm[i] EXCEPT !.actions = @ \o acts] ELSE pm[i]]
           new == IF \E i \in DOMAIN pm : pm[i].class = c
                  THEN more ELSE Append(pm, [class |-> c, actions |-> acts])
           e == AppendPolicyClass(d, n, c, acts)
<1>1. pm \in Seq(Class(m)) /\ Once(pm)
  BY DEF DeviceOK, PoliciesOK, Once
<1> HIDE DEF pm
<1>2. \A i \in DOMAIN pm : pm[i] \in Class(m)
  BY <1>1
<1>3. more \in Seq(Class(m)) /\ Once(more)
  <2>1. ASSUME NEW i \in DOMAIN pm
        PROVE  more[i] \in Class(m) /\ more[i].class = pm[i].class
    <3>1. pm[i] \in [class : Args(m), actions : Seq(Args(m))]
      BY <1>2 DEF Class
    <3>2. pm[i].actions \o acts \in Seq(Args(m))
      BY <3>1
    <3> QED
      BY <3>1, <3>2 DEF Class
  <2>2. more = [i \in DOMAIN pm |-> more[i]] /\ DOMAIN more = DOMAIN pm
    OBVIOUS
  <2> HIDE DEF more
  <2>3. more \in Seq(Class(m))
    BY <1>1, <2>1, <2>2
  <2> QED
    BY <1>1, <2>1, <2>2, <2>3 DEF Once
<1>4. ASSUME \A i \in DOMAIN pm : pm[i].class # c
      PROVE  LET x == Append(pm, [class |-> c, actions |-> acts])
             IN  x \in Seq(Class(m)) /\ Once(x)
  <2>1. [class |-> c, actions |-> acts] \in Class(m)
    BY DEF Class
  <2> QED
    BY <1>1, <1>4, <2>1 DEF Once
<1>5. new \in Seq(Class(m)) /\ Once(new)
  BY <1>3, <1>4
<1> HIDE DEF more, new
<1>6. /\ Fields(e) /\ e.kind = d.kind /\ e.global = d.global /\ e.port = d.port
      /\ e.pools = d.pools /\ e.entries = d.entries
      /\ e.policies = Put(d.policies, n, new)
  BY DEF AppendPolicyClass, DeviceOK, Fields, pm, more, new
<1>7. PoliciesOK(m, e)
  <2>1. ASSUME NEW x \in DOMAIN e.policies
        PROVE  e.policies[x] \in Seq(Class(m)) /\ Once(e.policies[x])
    <3>0. /\ DOMAIN Put(d.policies, n, new) = DOMAIN d.policies \cup {n}
          /\ Put(d.policies, n, new)[n] = new
          /\ \A y \in DOMAIN d.policies : y # n => Put(d.policies, n, new)[y] = d.policies[y]
      BY DEF Put
    <3> HIDE DEF e
    <3>1. /\ DOMAIN e.policies = DOMAIN d.policies \cup {n}
          /\ e.policies[n] = new
          /\ \A y \in DOMAIN d.policies : y # n => e.policies[y] = d.policies[y]
      BY <1>6, <3>0
    <3>2. \A y \in DOMAIN d.policies : d.policies[y] \in Seq(Class(m)) /\ Once(d.policies[y])
      BY DEF DeviceOK, PoliciesOK
    <3> QED
      BY <2>1, <3>1, <3>2, <1>5, Zenon
  <2> QED
    BY <2>1 DEF PoliciesOK
<1> QED
  BY <1>6, <1>7 DEF DeviceOK, PortsOK

LEMMA EffectOK ==
    ASSUME NEW m, NEW s, NEW d, NEW l \in m, NEW e,
           SessionOK(m, s), DeviceOK(m, d), Effect(s, d, l, e)
    PROVE  DeviceOK(m, e)
<1>1. CASE Sets(s, d, l, e)
  BY <1>1, SetPortOK DEF Sets, Typed
<1>2. CASE e = SetGlobal(d, l)
  <2>1. /\ Fields(e) /\ e.kind = d.kind /\ e.policies = d.policies /\ e.port = d.port
        /\ e.pools = d.pools /\ e.entries = d.entries /\ e.global = d.global \cup {l}
    BY <1>2 DEF SetGlobal, DeviceOK, Fields
  <2> QED
    BY <2>1 DEF DeviceOK, PortsOK, PoliciesOK
<1>3. CASE Pools(s, d, l, e)
  <2>1. PICK f : e = SetPool(d, PoolName(s), f, l.arg)
    BY <1>3 DEF Pools
  <2> DEFINE old == IF PoolName(s) \in DOMAIN d.pools THEN d.pools[PoolName(s)]
                    ELSE [network |-> None, router |-> None]
  <2>2. /\ Fields(e) /\ e.kind = d.kind /\ e.policies = d.policies /\ e.port = d.port
        /\ e.pools = Put(d.pools, PoolName(s), [old EXCEPT ![f] = l.arg])
        /\ e.entries = d.entries /\ e.global = d.global
    BY <2>1 DEF SetPool, DeviceOK, Fields
  <2>3. PoolName(s) \in {"LAN"} \cup Protos(m)
    BY DEF PoolName, OrDefault, SessionOK
  <2>4. DOMAIN e.pools = DOMAIN d.pools \cup {PoolName(s)}
    BY <2>2 DEF Put
  <2> QED
    BY <2>2, <2>3, <2>4 DEF DeviceOK, PortsOK, PoliciesOK
<1>4. CASE Actions(s, d, l, e)
  <2>1. /\ s.PolicyClassName \in Args(m) /\ l.arg \in Args(m)
        /\ <<l.arg>> \in Seq(Args(m)) /\ <<>> \in Seq(Args(m))
    BY DEF SessionOK, Args
  <2>2. CASE e = [d EXCEPT !.policies = Put(@, l.arg, <<>>)]
    <3>1. /\ Fields(e) /\ e.kind = d.kind /\ e.policies = Put(d.policies, l.arg, <<>>) /\ e.port = d.port
          /\ e.pools = d.pools /\ e.entries = d.entries /\ e.global = d.global
      BY <2>2 DEF DeviceOK, Fields
    <3>2. <<>> \in Seq(Class(m)) /\ Once(<<>>)
      BY DEF Once
    <3>3. /\ DOMAIN e.policies = DOMAIN d.policies \cup {l.arg}
          /\ e.policies[l.arg] = <<>>
          /\ \A y \in DOMAIN d.policies : y # l.arg => e.policies[y] = d.policies[y]
      BY <3>1 DEF Put
    <3>4. \A y \in DOMAIN d.policies : d.policies[y] \in Seq(Class(m)) /\ Once(d.policies[y])
      BY DEF DeviceOK, PoliciesOK
    <3>5. PoliciesOK(m, e)
      BY <3>2, <3>3, <3>4 DEF PoliciesOK
    <3> QED
      BY <3>1, <3>5 DEF DeviceOK, PortsOK
  <2> QED
    BY <1>4, <2>1, <2>2, AppendPolicyClassOK DEF Actions
<1>5. CASE Matches(s, d, l, e)
  <2>1. /\ Fields(e) /\ e.kind = d.kind /\ e.policies = d.policies /\ e.port = d.port
        /\ e.pools = d.pools /\ e.entries = d.entries /\ e.global = d.global
    BY <1>5 DEF Matches, DeviceOK, Fields
  <2> QED
    BY <2>1 DEF DeviceOK, PortsOK, PoliciesOK
<1> QED
  BY <1>1, <1>2, <1>3, <1>4, <1>5 DEF Effect

(* A handler touches no port but those it may be about, and no kind.       *)
Elsewhere(s, d, e) == e.kind = d.kind /\ \A p \in Places \ PortsFor(s) : e.port[p] = d.port[p]

LEMMA EffectElsewhere ==
    ASSUME NEW m, NEW s, NEW d, NEW l, NEW e, DeviceOK(m, d), Effect(s, d, l, e)
    PROVE  Elsewhere(s, d, e)
<1>1. CASE Sets(s, d, l, e)
  <2>1. PICK q \in PortsFor(s), a \in Attrs, v \in {l.arg, l.arg[2], TRUE, FALSE} :
            e = SetPort(d, q, a, v)
    BY <1>1 DEF Sets
  <2>2. e.port = [d.port EXCEPT ![q] = [d.port[q] EXCEPT ![a] = v]] /\ e.kind = d.kind
    BY <2>1 DEF SetPort, DeviceOK, Fields
  <2> QED
    BY <2>2 DEF DeviceOK, PortsOK, Elsewhere
<1>2. CASE ~Sets(s, d, l, e)
  <2>1. e.port = d.port /\ e.kind = d.kind
    BY <1>2
    DEF Effect, SetGlobal, Pools, SetPool, Actions, AppendPolicyClass, Matches, DeviceOK, Fields
  <2> QED BY <2>1 DEF Elsewhere
<1> QED
  BY <1>1, <1>2

LEMMA RunOK ==
    ASSUME NEW m, NEW s, NEW d, NEW l \in m, NEW h \in Handlers, Takes(h, l),
           SessionOK(m, s), DeviceOK(m, d)
    PROVE  DeviceOK(m, Run(h, s, d, l).dev) /\ Elsewhere(s, d, Run(h, s, d, l).dev)
<1>1. Effect(s, d, l, Run(h, s, d, l).dev)
  BY RunEffect DEF HandledAs
<1> QED
  BY <1>1, EffectOK, EffectElsewhere

-----------------------------------------------------------------------------
(* What the lists of a line hold.                                          *)

(* What it may have left to assign.                                        *)
Lists(l, as) ==
    /\ l.cmd \in {"exit", "end"} => \A i \in DOMAIN as : as[i].field = "Iface" => as[i] = Assign("Iface", None)
    /\ l.cmd \notin {"exit", "end", "interface"} => \A i \in DOMAIN as : as[i].field # "Iface"
    /\ l.cmd = "interface" =>
          as \in {<<Assign("Mode", "config-if"), Assign("Iface", l.arg)>>, <<Assign("Iface", l.arg)>>, <<>>}

LEMMA SwitchLists ==
    ASSUME NEW m, NEW s, SessionOK(m, s), NEW l \in m, MenuOK(m), NEW as, as = Switch(s.Mode, l)
    PROVE  /\ ListOK(m, as) /\ Lists(l, as)
           /\ l.cmd \in SessionCmds => as # <<>>
           /\ as # <<>> => l.cmd \in Assigning
           /\ l.cmd \notin SessionCmds \cup {"router"} => as = <<>>
<1>1. ListOK(m, as) /\ Switches(s, l, as, Assigned(s, as))
  BY SwitchIs
<1>2. CASE l.cmd \in {"enable", "configure", "exit"} /\ Leaves(s, l, as, Assigned(s, as))
  <2>1. PICK v : as = <<Assign("Mode", v)>>
    BY <1>2 DEF Leaves
  <2>2. as # <<>> /\ \A i \in DOMAIN as : as[i].field # "Iface"
    BY <2>1 DEF Assign
  <2> QED BY <1>1, <1>2, <2>2 DEF Lists, SessionCmds, Assigning
<1>3. CASE l.cmd = "interface" /\ Selected(s, l, as, Assigned(s, as))
  BY <1>1, <1>3 DEF Lists, SessionCmds, Assigning, Selected
<1>4. CASE l.cmd = "router" /\ Routes(s, l, as, Assigned(s, as))
  <2>1. as # <<>> /\ \A i \in DOMAIN as : as[i].field # "Iface"
    BY <1>4 DEF Routes, Assign
  <2> QED BY <1>1, <1>4, <2>1 DEF Lists, SessionCmds, Assigning
<1>5. CASE l.cmd \in {"end", "exit"} /\ LeavesPort(s, as, Assigned(s, as))
  <2>1. PICK v : as = <<Assign("Mode", v), Assign("Iface", None), Assign("RouterProto", None)>>
    BY <1>5 DEF LeavesPort
  <2>2. as # <<>> /\ \A i \in DOMAIN as : as[i].field = "Iface" => as[i] = Assign("Iface", None)
    BY <2>1 DEF Assign
  <2> QED BY <1>1, <1>5, <2>2 DEF Lists, SessionCmds, Assigning
<1>6. CASE l.cmd = "exit" /\ LeavesMap(s, as, Assigned(s, as))
  <2>1. as # <<>> /\ \A i \in DOMAIN as : as[i].field # "Iface"
    BY <1>6 DEF LeavesMap, Assign
  <2> QED BY <1>1, <1>6, <2>1 DEF Lists, SessionCmds, Assigning
<1>7. CASE l.cmd = "exit" /\ LeavesClass(s, as, Assigned(s, as))
  <2>1. as # <<>> /\ \A i \in DOMAIN as : as[i].field # "Iface"
    BY <1>7 DEF LeavesClass, Assign
  <2> QED BY <1>1, <1>7, <2>1 DEF Lists, SessionCmds, Assigning
<1>8. CASE l.cmd \notin SessionCmds \cup {"router"} /\ as = <<>>
  BY <1>1, <1>8 DEF Lists, SessionCmds
<1> QED BY <1>1, <1>2, <1>3, <1>4, <1>5, <1>6, <1>7, <1>8 DEF Switches

(* What a handler selects.                                                 *)
Chooses(s, l, t) ==
    \/ t = s
    \/ l.cmd = "class" /\ t = With(With(s, "Mode", "config-policy-class"), "PolicyClassName", l.arg)
    \/ l.cmd = "class-map" /\ t = With(With(s, "Mode", "config-class-map"), "ClassMapName", l.arg)
    \/ l.cmd = "policy-map" /\ t = With(With(s, "Mode", "config-policy-map"), "PolicyMapName", l.arg)
    \/ l.cmd = "crypto isakmp policy" /\ t = With(s, "RouterProto", "isakmp")
    \/ l.cmd = "crypto map seq"
       /\ t = With(With(With(s, "PolicyMapName", l.arg), "RouterProto", "crypto"), "Mode", "config-policy-map")

LEMMA SelectsIs ==
    ASSUME NEW m, NEW s, SessionOK(m, s), NEW l \in m, MenuOK(m), NEW as, as = <<>> \/ Selects(l, as)
    PROVE  /\ ListOK(m, as) /\ Lists(l, as) /\ Chooses(s, l, Assigned(s, as))
           /\ as # <<>> => l.cmd \in Assigning \ SessionCmds
<1>v. /\ ValueOK(m, Assign("Mode", "config-policy-class")) /\ ValueOK(m, Assign("Mode", "config-class-map"))
      /\ ValueOK(m, Assign("Mode", "config-policy-map")) /\ ValueOK(m, Assign("RouterProto", "isakmp"))
      /\ ValueOK(m, Assign("RouterProto", "crypto")) /\ ValueOK(m, Assign("PolicyClassName", l.arg))
      /\ ValueOK(m, Assign("ClassMapName", l.arg)) /\ ValueOK(m, Assign("PolicyMapName", l.arg))
  BY Values, ModeValues
<1>1. CASE as = <<>>
  <2>1. ListOK(m, as) /\ Assigned(s, as) = s
    BY <1>1, AssignedNone
  <2>2. DOMAIN as = {}
    BY <1>1
  <2> QED BY <1>1, <2>1, <2>2 DEF Lists, Chooses
<1>2. CASE l.cmd = "class" /\ as = <<Assign("Mode", "config-policy-class"), Assign("PolicyClassName", l.arg)>>
  <2>1. ListOK(m, as) /\ Assigned(s, as) = With(With(s, "Mode", "config-policy-class"), "PolicyClassName", l.arg)
    BY <1>2, <1>v, WithTwo
  <2>2. \A i \in DOMAIN as : as[i].field # "Iface"
    BY <1>2 DEF Assign
  <2> QED BY <1>2, <2>1, <2>2 DEF Lists, Chooses, Assigning, SessionCmds
<1>3. CASE l.cmd = "class-map" /\ as = <<Assign("Mode", "config-class-map"), Assign("ClassMapName", l.arg)>>
  <2>1. ListOK(m, as) /\ Assigned(s, as) = With(With(s, "Mode", "config-class-map"), "ClassMapName", l.arg)
    BY <1>3, <1>v, WithTwo
  <2>2. \A i \in DOMAIN as : as[i].field # "Iface"
    BY <1>3 DEF Assign
  <2> QED BY <1>3, <2>1, <2>2 DEF Lists, Chooses, Assigning, SessionCmds
<1>4. CASE l.cmd = "policy-map" /\ as = <<Assign("Mode", "config-policy-map"), Assign("PolicyMapName", l.arg)>>
  <2>1. ListOK(m, as) /\ Assigned(s, as) = With(With(s, "Mode", "config-policy-map"), "PolicyMapName", l.arg)
    BY <1>4, <1>v, WithTwo
  <2>2. \A i \in DOMAIN as : as[i].field # "Iface"
    BY <1>4 DEF Assign
  <2> QED BY <1>4, <2>1, <2>2 DEF Lists, Chooses, Assigning, SessionCmds
<1>5. CASE l.cmd = "crypto isakmp policy" /\ as = <<Assign("RouterProto", "isakmp")>>
  <2>1. ListOK(m, as) /\ Assigned(s, as) = With(s, "RouterProto", "isakmp")
    BY <1>5, <1>v, WithOne
  <2>2. \A i \in DOMAIN as : as[i].field # "Iface"
    <3> DEFINE a == Assign("RouterProto", "isakmp")
    <3>1. a.field # "Iface" /\ as = <<a>>
      BY <1>5, WithIs
    <3> HIDE DEF a
    <3> QED BY <3>1
  <2> QED BY <1>5, <2>1, <2>2 DEF Lists, Chooses, Assigning, SessionCmds
<1>6. CASE /\ l.cmd = "crypto map seq"
           /\ as = <<Assign("PolicyMapName", l.arg), Assign("RouterProto", "crypto"),
                     Assign("Mode", "config-policy-map")>>
  <2>1. /\ ListOK(m, as)
        /\ Assigned(s, as) = With(With(With(s, "PolicyMapName", l.arg), "RouterProto", "crypto"),
                                  "Mode", "config-policy-map")
    <3>1. /\ ValueOK(m, Assign("PolicyMapName", l.arg)) /\ ValueOK(m, Assign("RouterProto", "crypto"))
          /\ ValueOK(m, Assign("Mode", "config-policy-map"))
      BY <1>v
    <3>2. as = <<Assign("PolicyMapName", l.arg), Assign("RouterProto", "crypto"),
                 Assign("Mode", "config-policy-map")>>
      BY <1>6
    <3>3. "PolicyMapName" # "RouterProto" /\ "PolicyMapName" # "Mode" /\ "RouterProto" # "Mode"
      OBVIOUS
    <3> DEFINE x == <<Assign("PolicyMapName", l.arg), Assign("RouterProto", "crypto"),
                      Assign("Mode", "config-policy-map")>>
    <3>4. /\ ListOK(m, x)
          /\ Assigned(s, x) = With(With(With(s, "PolicyMapName", l.arg), "RouterProto", "crypto"),
                                    "Mode", "config-policy-map")
      BY <3>1, <3>3, WithThree
    <3> HIDE DEF x
    <3>5. as = x
      BY <3>2 DEF x
    <3> QED BY <3>4, <3>5
  <2>2. \A i \in DOMAIN as : as[i].field # "Iface"
    <3> DEFINE a == Assign("PolicyMapName", l.arg)
               b == Assign("RouterProto", "crypto")
               c == Assign("Mode", "config-policy-map")
    <3>1. a.field # "Iface" /\ b.field # "Iface" /\ c.field # "Iface"
      BY WithIs
    <3>2. as = <<a, b, c>>
      BY <1>6, Zenon
    <3> HIDE DEF a, b, c
    <3> QED BY <3>1, <3>2
  <2> QED BY <1>6, <2>1, <2>2 DEF Lists, Chooses, Assigning, SessionCmds
<1> QED BY <1>1, <1>2, <1>3, <1>4, <1>5, <1>6 DEF Selects

LEMMA ReadsOK ==
    ASSUME NEW l, NEW as, NEW rs, Reads(l, as, rs)
    PROVE  rs \in Seq(Names)
<1>1. /\ "Iface" \in Names /\ "ClassMapName" \in Names /\ "RouterProto" \in Names
      /\ "PolicyMapName" \in Names /\ "PolicyClassName" \in Names
  BY DEF Names
<1>2. /\ \A x \in Names : <<x>> \in Seq(Names)
      /\ \A x, y \in Names : <<x, y>> \in Seq(Names)
      /\ <<>> \in Seq(Names)
  OBVIOUS
<1> QED BY <1>1, <1>2, Zenon DEF Reads

LEMMA TailLists ==
    ASSUME NEW m, NEW s, SessionOK(m, s), NEW l, NEW as, ListOK(m, as), as # <<>>, Lists(l, as)
    PROVE  Lists(l, Tail(as))
<1> DEFINE a == Head(as)
           more == Tail(as)
<1>1. l.cmd = "interface" => more \in {<<Assign("Iface", l.arg)>>, <<>>}
  <2>1. \A x, y : Tail(<<x, y>>) = <<y>> /\ Tail(<<y>>) = <<>>
    OBVIOUS
  <2> QED BY <2>1 DEF Lists
<1>2. Unfolds(m, s, as, a, more)
  BY AssignedStep
<1> HIDE DEF a, more
<1>3. \A i \in DOMAIN more : i + 1 \in DOMAIN as /\ more[i] = as[i + 1]
  BY <1>2 DEF Unfolds
<1>4. Lists(l, more)
  BY <1>1, <1>3 DEF Lists
<1> QED BY <1>4 DEF more

-----------------------------------------------------------------------------
(* The lines that are being run, and the invariant of the types.           *)

(* Where a line may be, and what it may have left to do.                   *)
Stages == {"return", "record", "dispatch"} \cup Handlers
Shape(T) ==
    /\ T.at = "return" => T.line.cmd \in SessionCmds /\ T.assigns # <<>>
    /\ T.at # "return" => T.line.cmd \notin SessionCmds
    /\ T.at = "record" => T.assigns = <<>> \/ T.line.cmd = "router"
    /\ T.at = "dispatch" => T.assigns = <<>>
    /\ T.at \notin Handlers => T.reads = <<>>
    /\ T.at \in Handlers => Takes(T.at, T.line)
    /\ T.assigns # <<>> => T.line.cmd \in Assigning

LineIs(T) ==
    T = [line |-> T.line, at |-> T.at, config |-> T.config, assigns |-> T.assigns, reads |-> T.reads,
         view |-> T.view, seen |-> T.seen, stale |-> T.stale, shown |-> T.shown]
LineTyped(m, T) ==
    /\ LineIs(T)
    /\ ListOK(m, T.assigns) /\ T.reads \in Seq(Names) /\ SessionOK(m, T.view) /\ T.seen \subseteq Modes
    /\ T.config \in BOOLEAN /\ T.stale \in BOOLEAN /\ T.shown \in Places
Running(m, T) == T.at \in Stages /\ T.line \in m /\ Shape(T) /\ Lists(T.line, T.assigns)
LineOK(m, T) == LineTyped(m, T) /\ (T = NoLine \/ Running(m, T))
TodoOK(m, t) == t = [c \in Conns |-> t[c]] /\ \A c \in Conns : LineOK(m, t[c])

TypesInv ==
    /\ MenuOK(menu) /\ SessionOK(menu, sess) /\ DeviceOK(menu, dev)
    /\ running \in Seq(menu) /\ startup \in Seq(menu) /\ IsPrefix(startup, running)
    /\ TodoOK(menu, todo)
    /\ commands \in 0..MaxCommands
    /\ ~replaced => \A c \in Conns : ~todo[c].stale

(* The line after each of the actions.                                     *)
Opened(l, s) == [NoLine EXCEPT !.line = l, !.at = First(l), !.seen = {s.Mode}, !.assigns = Switch(s.Mode, l)]
Noted(T, b, v) == [T EXCEPT !.at = "dispatch", !.config = b, !.seen = {v}]
Sent(T, h, s, r) == [T EXCEPT !.at = h, !.seen = {}, !.view = s, !.assigns = r.assigns, !.reads = r.reads]
Told(T, s, p) ==
    [T EXCEPT !.view = [T.view EXCEPT ![Head(T.reads)] = s[Head(T.reads)]], !.reads = Tail(@), !.shown = p]
With1(t, c, X) == [t EXCEPT ![c] = X]

LEMMA NoLineIs ==
    /\ NoLine.at = "idle" /\ NoLine.assigns = <<>> /\ NoLine.reads = <<>> /\ NoLine.stale = FALSE
    /\ NoLine.view = Session0 /\ NoLine.seen = {} /\ NoLine.config = FALSE /\ NoLine.shown = None
    /\ NoLine.line = None /\ LineIs(NoLine) /\ "idle" \notin Stages
  BY DEF NoLine, LineIs, Stages, Handlers

LEMMA StagesAre ==
    /\ "return" \notin Handlers /\ "record" \notin Handlers /\ "dispatch" \notin Handlers
    /\ "idle" \notin Handlers /\ Handlers \subseteq Stages
    /\ "return" \in Stages /\ "record" \in Stages /\ "dispatch" \in Stages
  BY DEF Handlers, Stages

LEMMA Session0OK == ASSUME NEW m PROVE SessionOK(m, Session0) /\ Session0.Iface = None
  BY DEF Session0, SessionOK, Modes, Args

LEMMA NoLineOK == ASSUME NEW m PROVE LineOK(m, NoLine)
<1>1. ListOK(m, <<>>) /\ <<>> \in Seq(Names) /\ SessionOK(m, Session0)
  BY AssignedNone, Session0OK
<1> QED BY <1>1, NoLineIs DEF LineOK, LineTyped, Places

OpenedIs(m, l, s, T) ==
    /\ LineOK(m, T) /\ T.line = l /\ T.at = First(l) /\ T.seen = {s.Mode}
    /\ T.assigns = Switch(s.Mode, l) /\ T.stale = FALSE /\ T.view = Session0 /\ T.shown = None
    /\ T # NoLine

LEMMA EnteredLine ==
    ASSUME NEW m, NEW l \in m, MenuOK(m), NEW s, SessionOK(m, s)
    PROVE  OpenedIs(m, l, s, Opened(l, s))
<1> DEFINE T == Opened(l, s)
<1>x. T = Opened(l, s)
  OBVIOUS
<1> HIDE DEF T
<1>1. /\ T.line = l /\ T.at = First(l) /\ T.seen = {s.Mode} /\ T.assigns = Switch(s.Mode, l)
      /\ T.stale = FALSE /\ T.view = Session0 /\ T.shown = None /\ T.reads = <<>> /\ T.config = FALSE
      /\ LineIs(T)
  BY <1>x DEF NoLine, LineIs, Opened
<1>2. /\ ListOK(m, T.assigns) /\ Lists(l, T.assigns)
      /\ l.cmd \in SessionCmds => T.assigns # <<>>
      /\ T.assigns # <<>> => l.cmd \in Assigning
      /\ l.cmd \notin SessionCmds \cup {"router"} => T.assigns = <<>>
  BY <1>1, SwitchLists
<1>3. <<>> \in Seq(Names) /\ SessionOK(m, Session0) /\ s.Mode \in Modes
  BY Session0OK DEF SessionOK
<1>4. First(l) = IF l.cmd \in SessionCmds THEN "return" ELSE "record"
  BY DEF First
<1>5. LineTyped(m, T)
  BY <1>1, <1>2, <1>3 DEF LineTyped, Places
<1>6. Running(m, T)
  BY <1>1, <1>2, <1>4, StagesAre DEF Running, Shape
<1>q. OpenedIs(m, l, s, T)
  BY <1>1, <1>5, <1>6, NoLineIs DEF LineOK, Running, OpenedIs
<1> QED BY <1>q DEF T

LEMMA AssignedLine ==
    ASSUME NEW m, NEW T, LineOK(m, T), T.assigns # <<>>, NEW X,
           X = [T EXCEPT !.assigns = Tail(@)], ~(T.at = "return" /\ Len(T.assigns) = 1)
    PROVE  LineOK(m, X) /\ X # NoLine
<1>0. T # NoLine
  BY NoLineIs
<1>1. /\ LineIs(X) /\ X.line = T.line /\ X.at = T.at /\ X.config = T.config /\ X.assigns = Tail(T.assigns)
      /\ X.reads = T.reads /\ X.view = T.view /\ X.seen = T.seen /\ X.stale = T.stale /\ X.shown = T.shown
  BY DEF LineOK, LineTyped, LineIs
<1>2. Unfolds(m, T.view, T.assigns, Head(T.assigns), Tail(T.assigns))
  BY AssignedStep DEF LineOK, LineTyped
<1>3. ListOK(m, X.assigns) /\ Lists(T.line, X.assigns)
  BY <1>0, <1>1, <1>2, TailLists DEF Unfolds, LineOK, LineTyped, Running
<1>4. T.at = "return" => X.assigns # <<>>
  <2>1. PICK S : T.assigns \in Seq(S)
    BY DEF LineOK, LineTyped, ListOK
  <2>2. Len(T.assigns) \in Nat \ {0} /\ Len(Tail(T.assigns)) = Len(T.assigns) - 1
    BY <2>1, Parts
  <2>3. Len(<<>>) = 0
    OBVIOUS
  <2>4. Len(T.assigns) # 1 => Len(Tail(T.assigns)) # 0
    BY <2>2
  <2> QED BY <1>1, <2>3, <2>4, Zenon
<1>5. LineTyped(m, X)
  BY <1>1, <1>3 DEF LineOK, LineTyped
<1>6. Running(m, X)
  BY <1>0, <1>1, <1>3, <1>4 DEF LineOK, Running, Shape
<1> QED BY <1>5, <1>6, NoLineIs DEF LineOK, Running

LEMMA SeenLine ==
    ASSUME NEW m, NEW T, LineOK(m, T), T # NoLine, NEW v \in Modes, NEW X, X = [T EXCEPT !.seen = @ \cup {v}]
    PROVE  LineOK(m, X) /\ X # NoLine
<1>1. /\ LineIs(X) /\ X.line = T.line /\ X.at = T.at /\ X.config = T.config /\ X.assigns = T.assigns
      /\ X.reads = T.reads /\ X.view = T.view /\ X.seen = T.seen \cup {v} /\ X.stale = T.stale
      /\ X.shown = T.shown
  BY DEF LineOK, LineTyped, LineIs
<1>2. LineTyped(m, X)
  BY <1>1 DEF LineOK, LineTyped
<1>3. Running(m, X)
  BY <1>1 DEF LineOK, Running, Shape
<1> QED BY <1>2, <1>3, NoLineIs DEF LineOK, Running

LEMMA StaleLine ==
    ASSUME NEW m, NEW T, LineOK(m, T), T # NoLine, NEW X, X = [T EXCEPT !.stale = TRUE]
    PROVE  LineOK(m, X) /\ X # NoLine
<1>1. /\ LineIs(X) /\ X.line = T.line /\ X.at = T.at /\ X.config = T.config /\ X.assigns = T.assigns
      /\ X.reads = T.reads /\ X.view = T.view /\ X.seen = T.seen /\ X.stale = TRUE /\ X.shown = T.shown
  BY DEF LineOK, LineTyped, LineIs
<1>2. LineTyped(m, X)
  BY <1>1 DEF LineOK, LineTyped
<1>3. Running(m, X)
  BY <1>1 DEF LineOK, Running, Shape
<1> QED BY <1>2, <1>3, NoLineIs DEF LineOK, Running

NotedIs(m, T, b, v, X) ==
    /\ LineOK(m, X) /\ X # NoLine
    /\ X.line = T.line /\ X.at = "dispatch" /\ X.config = b /\ X.assigns = <<>> /\ X.seen = {v}
    /\ X.view = T.view /\ X.stale = T.stale /\ X.shown = T.shown

LEMMA RecordedLine ==
    ASSUME NEW m, NEW T, LineOK(m, T), T.at = "record", T.assigns = <<>>, NEW b \in BOOLEAN, NEW v \in Modes
    PROVE  NotedIs(m, T, b, v, Noted(T, b, v))
<1> DEFINE X == Noted(T, b, v)
<1>x. X = Noted(T, b, v)
  OBVIOUS
<1> HIDE DEF X
<1>0. T # NoLine
  BY NoLineIs
<1>1. /\ LineIs(X) /\ X.line = T.line /\ X.at = "dispatch" /\ X.config = b /\ X.assigns = T.assigns
      /\ X.reads = T.reads /\ X.view = T.view /\ X.seen = {v} /\ X.stale = T.stale /\ X.shown = T.shown
  BY <1>x DEF LineOK, LineTyped, LineIs, Noted
<1>2. LineTyped(m, X)
  BY <1>1 DEF LineOK, LineTyped
<1>3. Running(m, X)
  BY <1>0, <1>1, StagesAre DEF LineOK, Running, Shape
<1>q. NotedIs(m, T, b, v, X)
  BY <1>1, <1>2, <1>3, NoLineIs DEF LineOK, Running, NotedIs
<1> QED BY <1>q DEF X

SentIs(m, T, h, s, r, X) ==
    /\ LineOK(m, X) /\ X # NoLine
    /\ X.line = T.line /\ X.at = h /\ X.config = T.config /\ X.assigns = r.assigns
    /\ X.reads = r.reads /\ X.view = s /\ X.stale = T.stale /\ X.shown = T.shown

LEMMA DispatchedLine ==
    ASSUME NEW m, MenuOK(m), NEW T, LineOK(m, T), T.at = "dispatch", NEW s, SessionOK(m, s), NEW d,
           NEW h \in Handlers, Takes(h, T.line), NEW r, HandledAs(s, d, T.line, r)
    PROVE  SentIs(m, T, h, s, r, Sent(T, h, s, r))
<1> DEFINE X == Sent(T, h, s, r)
<1>x. X = Sent(T, h, s, r)
  OBVIOUS
<1> HIDE DEF X
<1>0. T # NoLine /\ T.line \in m
  BY NoLineIs DEF LineOK, Running
<1>1. /\ LineIs(X) /\ X.line = T.line /\ X.at = h /\ X.config = T.config /\ X.assigns = r.assigns
      /\ X.reads = r.reads /\ X.view = s /\ X.seen = {} /\ X.stale = T.stale /\ X.shown = T.shown
  BY <1>x DEF LineOK, LineTyped, LineIs, Sent
<1>3. /\ ListOK(m, r.assigns) /\ Lists(T.line, r.assigns) /\ r.reads \in Seq(Names)
      /\ r.assigns # <<>> => T.line.cmd \in Assigning
  BY <1>0, SelectsIs, ReadsOK DEF HandledAs
<1>4. LineTyped(m, X)
  BY <1>1, <1>3 DEF LineOK, LineTyped
<1>5. Running(m, X)
  BY <1>0, <1>1, <1>3, StagesAre DEF LineOK, Running, Shape
<1>q. SentIs(m, T, h, s, r, X)
  BY <1>1, <1>4, <1>5, NoLineIs DEF LineOK, Running, SentIs
<1> QED BY <1>q DEF X

ToldIs(m, T, s, p, f, X) ==
    /\ LineOK(m, X) /\ X # NoLine /\ f \in Names
    /\ X.line = T.line /\ X.at = T.at /\ X.config = T.config /\ X.assigns = T.assigns
    /\ X.reads = Tail(T.reads) /\ X.view = [T.view EXCEPT ![f] = s[f]]
    /\ X.seen = T.seen /\ X.stale = T.stale /\ X.shown = p

LEMMA ReadLine ==
    ASSUME NEW m, NEW T, LineOK(m, T), T.reads # <<>>, NEW s, SessionOK(m, s), NEW p \in Places
    PROVE  ToldIs(m, T, s, p, Head(T.reads), Told(T, s, p))
<1> DEFINE X == Told(T, s, p)
           f == Head(T.reads)
<1>x. X = Told(T, s, p) /\ f = Head(T.reads)
  OBVIOUS
<1> HIDE DEF X, f
<1>0. T # NoLine
  BY NoLineIs
<1>1. /\ LineIs(X) /\ X.line = T.line /\ X.at = T.at /\ X.config = T.config /\ X.assigns = T.assigns
      /\ X.reads = Tail(T.reads) /\ X.view = [T.view EXCEPT ![f] = s[f]] /\ X.seen = T.seen
      /\ X.stale = T.stale /\ X.shown = p
  BY <1>x DEF LineOK, LineTyped, LineIs, Told
<1>2. f \in Names /\ Tail(T.reads) \in Seq(Names)
  BY <1>x, HeadTailProperties DEF LineOK, LineTyped
<1>3. SessionOK(m, X.view)
  BY <1>1, <1>2 DEF LineOK, LineTyped, SessionOK, Names
<1>4. LineTyped(m, X)
  BY <1>1, <1>2, <1>3 DEF LineOK, LineTyped
<1>5. Running(m, X)
  BY <1>0, <1>1 DEF LineOK, Running, Shape
<1>q. ToldIs(m, T, s, p, f, X)
  BY <1>1, <1>2, <1>4, <1>5, NoLineIs DEF LineOK, Running, ToldIs
<1> QED BY <1>q DEF X, f

OnlyAt(t, c, X, u) == u[c] = X /\ \A e \in Conns \ {c} : u[e] = t[e]

LEMMA TodoPut ==
    ASSUME NEW m, NEW t, TodoOK(m, t), NEW c \in Conns, NEW X, LineOK(m, X)
    PROVE  TodoOK(m, With1(t, c, X)) /\ OnlyAt(t, c, X, With1(t, c, X))
<1> DEFINE u == With1(t, c, X)
<1>1. u = [e \in Conns |-> IF e = c THEN X ELSE t[e]]
  BY DEF TodoOK, With1
<1> HIDE DEF u
<1>2. TodoOK(m, u) /\ OnlyAt(t, c, X, u)
  BY <1>1 DEF TodoOK, OnlyAt
<1> QED BY <1>2 DEF u

(* What each action does to the lines.                                     *)
Others(c) == \A e \in Conns \ {c} : todo'[e] = todo[e]

LEMMA Entered ==
    ASSUME TypesInv, NEW c \in Conns, NEW l \in menu, Enter(c, l)
    PROVE  /\ UNCHANGED <<menu, sess, dev, running, startup, unrecorded, strayed, jumped, replaced>>
           /\ TodoOK(menu, todo') /\ todo[c] = NoLine /\ Others(c)
           /\ OpenedIs(menu, l, sess, todo'[c])
<1> DEFINE X == Opened(l, sess)
<1>1. /\ UNCHANGED <<menu, sess, dev, running, startup, unrecorded, strayed, jumped, replaced>>
      /\ todo[c] = NoLine /\ todo' = With1(todo, c, X)
  BY DEF Enter, Command, Opened, With1
<1>2. OpenedIs(menu, l, sess, X)
  BY EnteredLine DEF TypesInv
<1> HIDE DEF X
<1>3. LineOK(menu, X) /\ TodoOK(menu, todo)
  BY <1>2 DEF OpenedIs, TypesInv
<1>4. TodoOK(menu, todo') /\ OnlyAt(todo, c, X, todo')
  BY <1>1, <1>3, TodoPut
<1> QED BY <1>1, <1>2, <1>4 DEF OnlyAt, Others

LEMMA FieldAssigned ==
    ASSUME TypesInv, NEW c \in Conns, AssignField(c), NEW as, as = todo[c].assigns
    PROVE  /\ UNCHANGED <<menu, dev, running, startup, commands, overlapped, mixed, replaced>>
           /\ as # <<>> /\ todo[c] # NoLine /\ ListOK(menu, as)
           /\ sess' = Done(sess, Head(as)) /\ SessionOK(menu, sess')
           /\ Unfolds(menu, sess, as, Head(as), Tail(as))
           /\ TodoOK(menu, todo') /\ todo'[c].assigns = Tail(as)
           /\ \/ /\ todo'[c] # NoLine /\ todo'[c].line = todo[c].line /\ todo'[c].at = todo[c].at
                 /\ todo'[c].config = todo[c].config /\ todo'[c].reads = todo[c].reads
                 /\ todo'[c].view = todo[c].view /\ todo'[c].seen = todo[c].seen
                 /\ todo'[c].stale = todo[c].stale /\ todo'[c].shown = todo[c].shown
              \/ todo'[c] = NoLine /\ todo[c].at = "return"
           /\ \A e \in Conns \ {c} :
                \/ todo'[e] = todo[e] /\ todo[e].at \notin {"record", "dispatch"}
                \/ /\ todo[e] # NoLine /\ todo'[e] # NoLine /\ todo'[e].line = todo[e].line
                   /\ todo'[e].at = todo[e].at
                   /\ todo'[e].config = todo[e].config /\ todo'[e].assigns = todo[e].assigns
                   /\ todo'[e].reads = todo[e].reads /\ todo'[e].view = todo[e].view
                   /\ todo'[e].stale = todo[e].stale /\ todo'[e].shown = todo[e].shown
<1> DEFINE T == todo[c]
           a == Head(T.assigns)
           X == IF T.at = "return" /\ Len(T.assigns) = 1 THEN NoLine ELSE [T EXCEPT !.assigns = Tail(@)]
           Y(e) == IF todo[e].at \in {"record", "dispatch"}
                   THEN [todo[e] EXCEPT !.seen = @ \cup {sess'.Mode}] ELSE todo[e]
<1>1. /\ UNCHANGED <<menu, dev, running, startup, commands, overlapped, mixed, replaced>>
      /\ T.assigns # <<>> /\ sess' = [sess EXCEPT ![a.field] = a.value]
      /\ todo' = [e \in Conns |-> IF e = c THEN X ELSE Y(e)]
  BY DEF AssignField
<1>2. LineOK(menu, T) /\ SessionOK(menu, sess) /\ \A e \in Conns : LineOK(menu, todo[e])
  BY DEF TypesInv, TodoOK
<1>3. Unfolds(menu, sess, T.assigns, a, Tail(T.assigns)) /\ ListOK(menu, T.assigns)
  BY <1>1, <1>2, AssignedStep DEF LineOK, LineTyped
<1>4. sess' = Done(sess, a) /\ SessionOK(menu, sess')
  BY <1>1, <1>2, <1>3, DoneOK DEF Done, Unfolds
<1>5. T # NoLine
  BY <1>1, NoLineIs
<1>6. /\ LineOK(menu, X) /\ X.assigns = Tail(T.assigns)
      /\ \/ /\ X # NoLine /\ X.line = T.line /\ X.at = T.at /\ X.config = T.config /\ X.reads = T.reads
            /\ X.view = T.view /\ X.seen = T.seen /\ X.stale = T.stale /\ X.shown = T.shown
         \/ X = NoLine /\ T.at = "return"
  <2>1. CASE T.at = "return" /\ Len(T.assigns) = 1
    <3>1. PICK S : T.assigns \in Seq(S)
      BY <1>3 DEF ListOK
    <3>2. Tail(T.assigns) \in Seq(S) /\ Len(Tail(T.assigns)) = Len(T.assigns) - 1
      BY <1>1, <3>1, Parts
    <3>3. Tail(T.assigns) = <<>>
      <4>1. Len(Tail(T.assigns)) = 0
        BY <2>1, <3>2
      <4> QED BY <3>2, <4>1, EmptySeq, Zenon
    <3> QED BY <2>1, <3>3, NoLineOK, NoLineIs
  <2>2. CASE ~(T.at = "return" /\ Len(T.assigns) = 1)
    <3>1. X = [T EXCEPT !.assigns = Tail(T.assigns)]
      BY <2>2
    <3>2. LineOK(menu, X) /\ X # NoLine
      BY <1>1, <1>2, <2>2, AssignedLine
    <3>3. LineIs(T)
      BY <1>2 DEF LineOK, LineTyped
    <3> HIDE DEF X, T
    <3> QED BY <3>1, <3>2, <3>3 DEF LineIs
  <2> QED BY <2>1, <2>2
<1>7. ASSUME NEW e \in Conns
      PROVE  /\ LineOK(menu, Y(e))
             /\ \/ Y(e) = todo[e] /\ todo[e].at \notin {"record", "dispatch"}
                \/ /\ todo[e] # NoLine /\ Y(e) # NoLine /\ Y(e).line = todo[e].line /\ Y(e).at = todo[e].at
                   /\ Y(e).config = todo[e].config /\ Y(e).assigns = todo[e].assigns
                   /\ Y(e).reads = todo[e].reads /\ Y(e).view = todo[e].view
                   /\ Y(e).stale = todo[e].stale /\ Y(e).shown = todo[e].shown
  <2>1. CASE todo[e].at \in {"record", "dispatch"}
    <3>1. todo[e] # NoLine /\ sess'.Mode \in Modes
      BY <1>4, <2>1, NoLineIs DEF SessionOK
    <3>2. Y(e) = [todo[e] EXCEPT !.seen = todo[e].seen \cup {sess'.Mode}]
      BY <2>1
    <3>3. LineOK(menu, Y(e)) /\ Y(e) # NoLine
      BY <1>2, <2>1, <3>1, SeenLine
    <3>4. LineIs(todo[e])
      BY <1>2 DEF LineOK, LineTyped
    <3> HIDE DEF Y
    <3> QED BY <3>1, <3>2, <3>3, <3>4 DEF LineIs
  <2>2. CASE todo[e].at \notin {"record", "dispatch"}
    BY <1>2, <2>2
  <2> QED BY <2>1, <2>2
<1> HIDE DEF X, Y
<1>8. todo'[c] = X /\ \A e \in Conns \ {c} : todo'[e] = Y(e)
  BY <1>1
<1>9. TodoOK(menu, todo')
  BY <1>1, <1>6, <1>7 DEF TodoOK
<1> QED BY <1>1, <1>3, <1>4, <1>5, <1>6, <1>7, <1>8, <1>9

LEMMA LineRecorded ==
    ASSUME TypesInv, NEW c \in Conns, Record(c)
    PROVE  \E mode \in ModesSeen(c), config \in BOOLEAN :
             /\ UNCHANGED <<menu, sess, dev, startup, commands, history>>
             /\ config <=> Recorded(mode, todo[c].line)
             /\ running' = IF config THEN AppendRunning(running, todo[c].line) ELSE running
             /\ todo[c].at = "record" /\ todo[c].assigns = <<>> /\ todo[c] # NoLine
             /\ TodoOK(menu, todo') /\ Others(c)
             /\ NotedIs(menu, todo[c], config, sess.Mode, todo'[c])
<1> DEFINE T == todo[c]
<1>1. PICK mode \in ModesSeen(c) :
        /\ running' = IF Recorded(mode, T.line) THEN AppendRunning(running, T.line) ELSE running
        /\ todo' = [todo EXCEPT ![c].at = "dispatch", ![c].config = Recorded(mode, T.line), ![c].seen = {sess.Mode}]
  BY DEF Record
<1>2. UNCHANGED <<menu, sess, dev, startup, commands, history>> /\ T.at = "record" /\ T.assigns = <<>>
  BY DEF Record
<1> DEFINE b == Recorded(mode, T.line)
           X == Noted(T, b, sess.Mode)
<1>3. b \in BOOLEAN /\ (b <=> Recorded(mode, T.line))
  BY DEF Recorded
<1>4. running' = IF b THEN AppendRunning(running, T.line) ELSE running
  BY <1>1
<1>5. todo' = [todo EXCEPT ![c].at = "dispatch", ![c].config = b, ![c].seen = {sess.Mode}]
  BY <1>1
<1> HIDE DEF b
<1>6. todo' = With1(todo, c, X)
  BY <1>5 DEF TypesInv, TodoOK, Noted, With1
<1>7. LineOK(menu, T) /\ sess.Mode \in Modes /\ TodoOK(menu, todo)
  BY DEF TypesInv, TodoOK, SessionOK
<1> HIDE DEF T
<1>8. NotedIs(menu, T, b, sess.Mode, X)
  BY <1>2, <1>3, <1>7, RecordedLine
<1> HIDE DEF X
<1>9. TodoOK(menu, todo') /\ OnlyAt(todo, c, X, todo')
  <2>1. LineOK(menu, X)
    BY <1>8 DEF NotedIs
  <2> QED BY <1>6, <1>7, <2>1, TodoPut
<1>10. T # NoLine
  BY <1>2, NoLineIs
<1> QED BY <1>1, <1>2, <1>3, <1>4, <1>8, <1>9, <1>10 DEF OnlyAt, Others, T

LEMMA LineDispatched ==
    ASSUME TypesInv, NEW c \in Conns, Dispatch(c)
    PROVE  \E own \in ModesSeen(c), mode \in [Tests -> ModesSeen(c)] :
             LET view == [sess EXCEPT !.Mode = own, !.Iface = None]
                 h == Handler(mode, dev.kind, todo[c].config, todo[c].line)
                 r == Run(h, view, dev, todo[c].line)
             IN  /\ UNCHANGED <<menu, sess, dev, running, startup, commands, history>>
                 /\ todo[c].at = "dispatch" /\ todo[c].assigns = <<>> /\ todo[c] # NoLine
                 /\ TodoOK(menu, todo') /\ Others(c) /\ h \in Handlers
                 /\ SentIs(menu, todo[c], h, view, r, todo'[c])
                 /\ HandledAs(view, dev, todo[c].line, r)
<1> DEFINE T == todo[c]
<1>1. PICK own \in ModesSeen(c), mode \in [Tests -> ModesSeen(c)] :
        todo' = LET h == Handler(mode, dev.kind, T.config, T.line)
                    view == [sess EXCEPT !.Mode = own, !.Iface = None]
                    r == Run(h, view, dev, T.line)
                IN  [todo EXCEPT ![c] = [T EXCEPT !.at = h, !.seen = {}, !.view = view,
                                                   !.assigns = r.assigns, !.reads = r.reads]]
  BY DEF Dispatch
<1>2. UNCHANGED <<menu, sess, dev, running, startup, commands, history>> /\ T.at = "dispatch"
  BY DEF Dispatch
<1> DEFINE view == [sess EXCEPT !.Mode = own, !.Iface = None]
           h == Handler(mode, dev.kind, T.config, T.line)
           r == Run(h, view, dev, T.line)
           X == Sent(T, h, view, r)
<1>3. todo' = With1(todo, c, X)
  BY <1>1 DEF Sent, With1
<1>4. /\ LineOK(menu, T) /\ TodoOK(menu, todo) /\ MenuOK(menu) /\ SessionOK(menu, sess)
      /\ T # NoLine /\ T.assigns = <<>>
  BY <1>2, NoLineIs DEF TypesInv, TodoOK, LineOK, Running, Shape
<1>5. own \in Modes
  BY <1>4 DEF ModesSeen, LineOK, LineTyped, SessionOK, Modes
<1>6. SessionOK(menu, view)
  BY <1>4, <1>5 DEF SessionOK
<1>7. h \in Handlers /\ Takes(h, T.line)
  BY HandlerTakes
<1> HIDE DEF view, h, T
<1>8. HandledAs(view, dev, T.line, r)
  BY <1>7, RunEffect
<1> HIDE DEF r
<1>9. SentIs(menu, T, h, view, r, X)
  BY <1>2, <1>4, <1>6, <1>7, <1>8, DispatchedLine
<1> HIDE DEF X
<1>10. TodoOK(menu, todo') /\ OnlyAt(todo, c, X, todo')
  <2>1. LineOK(menu, X)
    BY <1>9 DEF SentIs
  <2> QED BY <1>3, <1>4, <2>1, TodoPut
<1>11. SentIs(menu, T, h, view, r, todo'[c]) /\ Others(c)
  BY <1>9, <1>10 DEF OnlyAt, Others
<1> QED BY <1>1, <1>2, <1>4, <1>7, <1>8, <1>10, <1>11 DEF T, h, r, view

LEMMA FieldRead ==
    ASSUME TypesInv, NEW c \in Conns, ReadField(c)
    PROVE  LET f == Head(todo[c].reads)
               p == IF f = "Iface" THEN Shown ELSE todo[c].shown
           IN  /\ UNCHANGED <<menu, sess, dev, running, startup, commands, history>>
               /\ todo[c].assigns = <<>> /\ todo[c].reads # <<>> /\ todo[c] # NoLine
               /\ todo[c].at \in Handlers /\ TodoOK(menu, todo') /\ Others(c)
               /\ ToldIs(menu, todo[c], sess, p, f, todo'[c])
<1> DEFINE T == todo[c]
           f == Head(todo[c].reads)
           p == IF f = "Iface" THEN Shown ELSE todo[c].shown
           X == Told(T, sess, p)
<1>1. /\ UNCHANGED <<menu, sess, dev, running, startup, commands, history>>
      /\ T.assigns = <<>> /\ T.reads # <<>>
      /\ todo' = [todo EXCEPT ![c].view[f] = sess[f], ![c].reads = Tail(@), ![c].shown = IF f = "Iface" THEN Shown ELSE @]
  BY DEF ReadField
<1>2. /\ LineOK(menu, T) /\ TodoOK(menu, todo) /\ SessionOK(menu, sess) /\ T # NoLine /\ T.at \in Handlers
  BY <1>1, NoLineIs DEF TypesInv, TodoOK, LineOK, Running, Shape
<1>3. todo' = With1(todo, c, X)
  BY <1>1, <1>2 DEF Told, With1, TodoOK
<1>4. p \in Places
  BY <1>2 DEF Shown, SessionOK, LineOK, LineTyped, Places
<1> HIDE DEF p, T
<1>5. ToldIs(menu, T, sess, p, Head(T.reads), X)
  BY <1>1, <1>2, <1>4, ReadLine
<1> HIDE DEF X
<1>6. TodoOK(menu, todo') /\ OnlyAt(todo, c, X, todo')
  <2>1. LineOK(menu, X)
    BY <1>5 DEF ToldIs
  <2> QED BY <1>2, <1>3, <2>1, TodoPut
<1> QED BY <1>1, <1>2, <1>5, <1>6 DEF OnlyAt, Others, T, p

LEMMA Configured ==
    ASSUME TypesInv, NEW c \in Conns, Configure(c)
    PROVE  /\ UNCHANGED <<menu, sess, running, startup, commands, overlapped, mixed, strayed, jumped, replaced>>
           /\ todo[c].at \in Handlers /\ todo[c].assigns = <<>> /\ todo[c].reads = <<>> /\ todo[c] # NoLine
           /\ \/ dev' = Run(todo[c].at, todo[c].view, dev, todo[c].line).dev
              \/ todo[c].stale /\ dev' = dev
           /\ unrecorded' = (unrecorded \/ (~todo[c].config /\ dev' # dev))
           /\ DeviceOK(menu, dev') /\ Elsewhere(todo[c].view, dev, dev')
           /\ TodoOK(menu, todo') /\ todo'[c] = NoLine /\ Others(c)
<1> DEFINE T == todo[c]
           e == Run(T.at, T.view, dev, T.line).dev
<1>1. /\ UNCHANGED <<menu, sess, running, startup, commands, overlapped, mixed, strayed, jumped, replaced>>
      /\ T.at \in Handlers /\ T.assigns = <<>> /\ T.reads = <<>>
      /\ dev' = e \/ (T.stale /\ dev' = dev)
      /\ unrecorded' = (unrecorded \/ (~T.config /\ dev' # dev))
      /\ todo' = With1(todo, c, NoLine)
  BY DEF Configure, With1
<1>2. T # NoLine
  BY <1>1, NoLineIs, StagesAre
<1>3. /\ LineOK(menu, T) /\ TodoOK(menu, todo) /\ DeviceOK(menu, dev) /\ SessionOK(menu, T.view)
      /\ T.line \in menu /\ Takes(T.at, T.line)
  BY <1>1, <1>2 DEF TypesInv, TodoOK, LineOK, LineTyped, Running, Shape
<1>4. DeviceOK(menu, e) /\ Elsewhere(T.view, dev, e)
  BY <1>1, <1>3, RunOK
<1> HIDE DEF e
<1>5. DeviceOK(menu, dev') /\ Elsewhere(T.view, dev, dev')
  <2>1. Elsewhere(T.view, dev, dev)
    BY DEF Elsewhere
  <2> QED BY <1>1, <1>3, <1>4, <2>1
<1>6. TodoOK(menu, todo') /\ OnlyAt(todo, c, NoLine, todo')
  BY <1>1, <1>3, NoLineOK, TodoPut
<1> QED BY <1>1, <1>2, <1>5, <1>6 DEF OnlyAt, Others, e

LEMMA PrefixSelf ==
    ASSUME NEW S, NEW s \in Seq(S)
    PROVE  IsPrefix(s, s)
  BY DEF IsPrefix

LEMMA PrefixAppend ==
    ASSUME NEW S, NEW s \in Seq(S), NEW t \in Seq(S), NEW x \in S, IsPrefix(s, t)
    PROVE  IsPrefix(s, Append(t, x))
<1>1. /\ Len(s) \in Nat /\ Len(t) \in Nat /\ Len(s) <= Len(t)
      /\ SubSeq(s, 1, Len(s)) = SubSeq(t, 1, Len(s))
      /\ Append(t, x) \in Seq(S) /\ Len(Append(t, x)) = Len(t) + 1
  BY DEF IsPrefix
<1>2. SubSeq(Append(t, x), 1, Len(s)) = SubSeq(t, 1, Len(s))
  BY <1>1
<1> QED
  BY <1>1, <1>2 DEF IsPrefix

LEMMA InitTypes == Init => TypesInv
<1> SUFFICES ASSUME Init PROVE TypesInv
  OBVIOUS
<1>1. PICK m \in Menus : menu = m.lines /\ dev = Fresh(m.kind)
  BY DEF Init
<1>2. MenuOK(menu) /\ DeviceOK(menu, dev)
  BY <1>1, FreshOK, ConsoleAssumption DEF MenuOK
<1>3. SessionOK(menu, sess)
  BY Session0OK DEF Init
<1>4. running \in Seq(menu) /\ startup \in Seq(menu) /\ IsPrefix(startup, running)
  <2>1. running = <<>> /\ startup = <<>>
    BY DEF Init
  <2>2. <<>> \in Seq(menu)
    OBVIOUS
  <2> QED
    BY <2>1, <2>2, PrefixSelf
<1>5. TodoOK(menu, todo) /\ \A c \in Conns : ~todo[c].stale
  <2>1. todo = [c \in Conns |-> NoLine]
    BY DEF Init
  <2> QED
    BY <2>1, NoLineOK, NoLineIs DEF TodoOK
<1>6. commands \in 0..MaxCommands
  <2>1. MaxCommands \in Nat
    BY ConsoleAssumption, Zenon
  <2> QED
    BY <2>1 DEF Init
<1> QED
  BY <1>2, <1>3, <1>4, <1>5, <1>6 DEF TypesInv

LEMMA NextTypes == TypesInv /\ [Next]_vars => TypesInv'
<1> SUFFICES ASSUME TypesInv, [Next]_vars PROVE TypesInv'
  OBVIOUS
<1>0. /\ MenuOK(menu) /\ SessionOK(menu, sess) /\ DeviceOK(menu, dev)
      /\ running \in Seq(menu) /\ startup \in Seq(menu) /\ IsPrefix(startup, running)
      /\ TodoOK(menu, todo) /\ commands \in 0..MaxCommands
      /\ ~replaced => \A c \in Conns : ~todo[c].stale
  BY DEF TypesInv
<1>c. Command => menu' = menu /\ commands' \in 0..MaxCommands
  <2>1. MaxCommands \in Nat
    BY ConsoleAssumption, Zenon
  <2> QED
    BY <1>0, <2>1 DEF Command
<1>1. ASSUME NEW c \in Conns, NEW l \in menu, Enter(c, l) PROVE TypesInv'
  <2>1. /\ UNCHANGED <<menu, sess, dev, running, startup, replaced>> /\ commands' \in 0..MaxCommands
        /\ TodoOK(menu, todo') /\ todo'[c].stale = FALSE /\ Others(c)
    BY <1>1, <1>c, Entered DEF Enter, OpenedIs
  <2> QED
    BY <1>0, <2>1 DEF TypesInv, Others
<1>2. ASSUME NEW c \in Conns, AssignField(c) PROVE TypesInv'
  <2>1. /\ UNCHANGED <<menu, dev, running, startup, commands, replaced>>
        /\ TodoOK(menu, todo') /\ SessionOK(menu, sess')
    BY <1>2, FieldAssigned
  <2>2. \A e \in Conns : todo'[e].stale = todo[e].stale \/ todo'[e] = NoLine
    BY <1>2, FieldAssigned
  <2> QED
    BY <1>0, <2>1, <2>2, NoLineIs DEF TypesInv
<1>3. ASSUME NEW c \in Conns, Record(c) PROVE TypesInv'
  <2>1. PICK mode \in ModesSeen(c), config \in BOOLEAN :
          /\ UNCHANGED <<menu, sess, dev, startup, commands, history>>
          /\ running' = IF config THEN AppendRunning(running, todo[c].line) ELSE running
          /\ TodoOK(menu, todo') /\ Others(c) /\ todo[c] # NoLine
          /\ NotedIs(menu, todo[c], config, sess.Mode, todo'[c])
    BY <1>3, LineRecorded
  <2>2. todo[c].line \in menu
    BY <1>0, <2>1 DEF TodoOK, LineOK, Running
  <2>3. running' \in Seq(menu) /\ IsPrefix(startup, running')
    BY <1>0, <2>1, <2>2, PrefixAppend DEF AppendRunning
  <2>4. todo'[c].stale = todo[c].stale /\ replaced' = replaced
    BY <2>1 DEF NotedIs, history
  <2> QED
    BY <1>0, <2>1, <2>3, <2>4 DEF TypesInv, Others
<1>4. ASSUME NEW c \in Conns, Dispatch(c) PROVE TypesInv'
  <2>1. /\ UNCHANGED <<menu, sess, dev, running, startup, commands, history>>
        /\ TodoOK(menu, todo') /\ Others(c)
    BY <1>4, LineDispatched
  <2>2. todo'[c].stale = todo[c].stale
    BY <1>4, LineDispatched DEF SentIs
  <2> QED
    BY <1>0, <2>1, <2>2 DEF TypesInv, Others, history
<1>5. ASSUME NEW c \in Conns, ReadField(c) PROVE TypesInv'
  <2>1. /\ UNCHANGED <<menu, sess, dev, running, startup, commands, history>>
        /\ TodoOK(menu, todo') /\ Others(c) /\ todo'[c].stale = todo[c].stale
    BY <1>5, FieldRead DEF ToldIs
  <2> QED
    BY <1>0, <2>1 DEF TypesInv, Others, history
<1>6. ASSUME NEW c \in Conns, Configure(c) PROVE TypesInv'
  <2>1. /\ UNCHANGED <<menu, sess, running, startup, commands, replaced>> /\ DeviceOK(menu, dev')
        /\ TodoOK(menu, todo') /\ todo'[c] = NoLine /\ Others(c)
    BY <1>6, Configured
  <2> QED
    BY <1>0, <2>1, NoLineIs DEF TypesInv, Others
<1>7. ASSUME WriteMemory PROVE TypesInv'
  BY <1>0, <1>7, <1>c, PrefixSelf DEF WriteMemory, history, TypesInv
<1>8. ASSUME NEW k \in Kinds, Replace(k) PROVE TypesInv'
  <2> DEFINE Y(c) == IF todo[c].at \in Handlers THEN [todo[c] EXCEPT !.stale = TRUE] ELSE todo[c]
  <2>1. /\ UNCHANGED <<menu, sess, running, startup>> /\ commands' \in 0..MaxCommands
        /\ dev' = Fresh(k) /\ replaced' = TRUE /\ todo' = [c \in Conns |-> Y(c)]
    BY <1>8, <1>c DEF Replace
  <2>2. ASSUME NEW c \in Conns PROVE LineOK(menu, Y(c))
    <3>1. LineOK(menu, todo[c])
      BY <1>0 DEF TodoOK
    <3>2. CASE todo[c].at \in Handlers
      BY <3>1, <3>2, StaleLine, NoLineIs, StagesAre
    <3> QED BY <3>1, <3>2
  <2> HIDE DEF Y
  <2>3. TodoOK(menu, todo')
    BY <2>1, <2>2 DEF TodoOK
  <2> QED
    BY <1>0, <2>1, <2>3, FreshOK DEF TypesInv
<1>9. CASE UNCHANGED vars
  BY <1>0, <1>9 DEF vars, history, TypesInv
<1> QED
  BY <1>1, <1>2, <1>3, <1>4, <1>5, <1>6, <1>7, <1>8, <1>9 DEF Next

LEMMA TypesInvariant == Spec => []TypesInv
  BY InitTypes, NextTypes, PTL DEF Spec

-----------------------------------------------------------------------------
(* A mode has its names, while lines that assign fields run one at a time. *)

Known(s) ==
    /\ s.Mode = "config-if" => s.Iface # None
    /\ s.Mode = "config-class-map" => s.ClassMapName # None
    /\ s.Mode \in PolicyModes => s.PolicyMapName # None
    /\ s.Mode = "config-policy-class" => s.PolicyClassName # None

LEMMA SwitchKnown ==
    ASSUME NEW m, NEW s, SessionOK(m, s), NEW l \in m, MenuOK(m), Known(s),
           NEW as, as = Switch(s.Mode, l)
    PROVE  Known(Assigned(s, as))
<1> DEFINE t == Assigned(s, as)
<1>1. Switches(s, l, as, t)
  BY SwitchIs
<1> SUFFICES Known(t)
  OBVIOUS
<1> HIDE DEF t
<1>0. DOMAIN s = Names
  BY SessionIs
<1>2. CASE Leaves(s, l, as, t)
  BY <1>0, <1>2 DEF Leaves, With, Known, PolicyModes, Names
<1>3. CASE l.cmd = "interface" /\ Selected(s, l, as, t)
  <2>1. l.arg # None
    BY <1>3, ConsoleAssumption DEF MenuOK
  <2> QED BY <1>0, <1>3, <2>1 DEF Selected, With, Known, PolicyModes, Names
<1>4. CASE Routes(s, l, as, t)
  BY <1>0, <1>4 DEF Routes, With, Known, PolicyModes, Names
<1>5. CASE LeavesPort(s, as, t)
  BY <1>0, <1>5 DEF LeavesPort, With, Known, PolicyModes, Names
<1>6. CASE LeavesMap(s, as, t)
  BY <1>0, <1>6 DEF LeavesMap, With, Known, PolicyModes, Names
<1>7. CASE LeavesClass(s, as, t)
  BY <1>0, <1>7 DEF LeavesClass, With, Known, PolicyModes, Names
<1>8. CASE t = s
  BY <1>8
<1> QED BY <1>1, <1>2, <1>3, <1>4, <1>5, <1>6, <1>7, <1>8 DEF Switches

(* A class is selected only where the handler of policy maps is asked.     *)
Moving(mode, s, d, config, l) == Run(Handler(mode, d.kind, config, l), s, d, l).assigns # <<>>

LEMMA ClassTakes ==
    ASSUME NEW mode, NEW s, NEW d, NEW config, NEW l, l.cmd = "class", Moving(mode, s, d, config, l)
    PROVE  mode["sub"] \in PolicyModes
<1> DEFINE h == Handler(mode, d.kind, config, l)
<1>1. /\ dispatchConfig(s, d, l).assigns = <<>> /\ Executor(d, l).assigns = <<>>
      /\ Nothing(d).assigns = <<>>
  BY DEF dispatchConfig, Executor, Nothing, Does
<1>2. execClassMapSub(s, d, l).assigns = <<>>
  BY <1>1 DEF execClassMapSub, Does
<1>3. dispatchExtended(s, d, l).assigns = <<>>
  <2>1. dispatchExtended(s, d, l) \in {execCrypto(s, d, l), Nothing(d)}
    BY DEF dispatchExtended, ExtendRouter
  <2>2. execCrypto(s, d, l) = Nothing(d)
    BY DEF execCrypto
  <2> QED BY <1>1, <2>1, <2>2
<1>4. h = "execPolicyMapSub"
  BY <1>1, <1>2, <1>3 DEF Run, Moving
<1> QED BY <1>4 DEF Handler

LEMMA ChoosesKnown ==
    ASSUME NEW m, NEW s, SessionOK(m, s), NEW l \in m, MenuOK(m), Known(s), NEW t, Chooses(s, l, t),
           l.cmd = "class" => t = s \/ s.Mode \in PolicyModes
    PROVE  Known(t)
<1>0. DOMAIN s = Names
  BY SessionIs
<1>1. CASE t = s
  BY <1>1
<1>2. CASE t # s /\ l.cmd = "class" /\ t = With(With(s, "Mode", "config-policy-class"), "PolicyClassName", l.arg)
  <2>1. l.arg # None /\ s.PolicyMapName # None
    BY <1>2 DEF MenuOK, Known
  <2> QED BY <1>0, <1>2, <2>1 DEF With, Known, PolicyModes, Names
<1>3. CASE l.cmd = "class-map" /\ t = With(With(s, "Mode", "config-class-map"), "ClassMapName", l.arg)
  <2>1. l.arg # None
    BY <1>3 DEF MenuOK
  <2> QED BY <1>0, <1>3, <2>1 DEF With, Known, PolicyModes, Names
<1>4. CASE l.cmd = "policy-map" /\ t = With(With(s, "Mode", "config-policy-map"), "PolicyMapName", l.arg)
  <2>1. l.arg # None
    BY <1>4 DEF MenuOK
  <2> QED BY <1>0, <1>4, <2>1 DEF With, Known, PolicyModes, Names
<1>5. CASE t = With(s, "RouterProto", "isakmp")
  BY <1>0, <1>5 DEF With, Known, PolicyModes, Names
<1>6. CASE /\ l.cmd = "crypto map seq"
           /\ t = With(With(With(s, "PolicyMapName", l.arg), "RouterProto", "crypto"), "Mode", "config-policy-map")
  <2>1. l.arg # None
    BY <1>6 DEF MenuOK
  <2> QED BY <1>0, <1>6, <2>1 DEF With, Known, PolicyModes, Names
<1> QED BY <1>1, <1>2, <1>3, <1>4, <1>5, <1>6 DEF Chooses

(* The line that assigns fields, and what it sees.                         *)
Moves(T) == T # NoLine /\ T.line.cmd \in Assigning
Single == \A c, e \in Conns : Moves(todo[c]) /\ Moves(todo[e]) => c = e
Sees(T) ==
    T.at = "dispatch" \/ (T.at = "record" /\ T.line.cmd # "router") => T.seen = {sess.Mode}
Lasting == \A c \in Conns : todo[c].assigns # <<>> => Known(Assigned(sess, todo[c].assigns))
Resting == (\A c \in Conns : todo[c].assigns = <<>>) => Known(sess)
ContextInv ==
    ~mixed => Single /\ Lasting /\ Resting /\ \A c \in Conns : Moves(todo[c]) => Sees(todo[c])

LEMMA ListMoves ==
    ASSUME TypesInv, NEW c \in Conns, todo[c].assigns # <<>>
    PROVE  /\ Moves(todo[c]) /\ LineOK(menu, todo[c]) /\ todo[c].line \in menu /\ Shape(todo[c])
           /\ todo[c].at # "dispatch" /\ (todo[c].at = "record" => todo[c].line.cmd = "router")
  BY NoLineIs DEF TypesInv, TodoOK, LineOK, Running, Shape, Moves

(* A line that alone assigns fields has the only list.                     *)
LEMMA OnlyList ==
    ASSUME TypesInv, Single, NEW c \in Conns, Moves(todo[c])
    PROVE  \A e \in Conns \ {c} : todo[e].assigns = <<>>
  BY ListMoves DEF Single

LEMMA Removed ==
    ASSUME TypesInv, NEW k \in Kinds, Replace(k)
    PROVE  /\ UNCHANGED <<menu, sess, running, startup, overlapped, mixed, unrecorded, strayed, jumped>>
           /\ dev' = Fresh(k) /\ replaced'
           /\ \A c \in Conns :
                /\ todo'[c] = NoLine <=> todo[c] = NoLine
                /\ todo'[c].line = todo[c].line /\ todo'[c].at = todo[c].at
                /\ todo'[c].assigns = todo[c].assigns /\ todo'[c].seen = todo[c].seen
                /\ todo'[c].view = todo[c].view /\ todo'[c].shown = todo[c].shown
<1>1. /\ UNCHANGED <<menu, sess, running, startup, overlapped, mixed, unrecorded, strayed, jumped>>
      /\ dev' = Fresh(k) /\ replaced'
      /\ todo' = [c \in Conns |-> IF todo[c].at \in Handlers THEN [todo[c] EXCEPT !.stale = TRUE] ELSE todo[c]]
  BY DEF Replace, Command
<1>2. ASSUME NEW c \in Conns
      PROVE  /\ todo'[c] = NoLine <=> todo[c] = NoLine
             /\ todo'[c].line = todo[c].line /\ todo'[c].at = todo[c].at
             /\ todo'[c].assigns = todo[c].assigns /\ todo'[c].seen = todo[c].seen
             /\ todo'[c].view = todo[c].view /\ todo'[c].shown = todo[c].shown
  <2>1. CASE todo[c].at \in Handlers
    <3> DEFINE T == todo[c]
               X == todo'[c]
    <3>1. LineIs(T) /\ LineOK(menu, T) /\ T # NoLine /\ X = [T EXCEPT !.stale = TRUE]
      BY <1>1, <2>1, NoLineIs, StagesAre DEF TypesInv, TodoOK, LineOK, LineTyped
    <3> HIDE DEF T, X
    <3>2. X # NoLine
      BY <3>1, StaleLine
    <3>3. /\ X.line = T.line /\ X.at = T.at /\ X.assigns = T.assigns /\ X.seen = T.seen
          /\ X.view = T.view /\ X.shown = T.shown
      BY <3>1 DEF LineIs
    <3> QED BY <3>1, <3>2, <3>3 DEF T, X
  <2>2. CASE todo[c].at \notin Handlers
    BY <1>1, <2>2
  <2> QED BY <2>1, <2>2
<1> QED BY <1>1, <1>2

LEMMA InitContext == Init => ContextInv
  BY NoLineIs DEF Init, ContextInv, Single, Lasting, Resting, Moves, Known, Session0, PolicyModes

LEMMA EnterContext ==
    ASSUME TypesInv, ContextInv, NEW c \in Conns, NEW l \in menu, Enter(c, l)
    PROVE  ContextInv'
<1> SUFFICES ASSUME ~mixed' PROVE ContextInv'
  BY DEF ContextInv
<1>t. MenuOK(menu) /\ SessionOK(menu, sess)
  BY DEF TypesInv
<1>1. /\ sess' = sess /\ todo[c] = NoLine /\ Others(c) /\ OpenedIs(menu, l, sess, todo'[c])
      /\ todo'[c].line = l /\ todo'[c].seen = {sess.Mode} /\ todo'[c].assigns = Switch(sess.Mode, l)
  BY Entered DEF OpenedIs
<1>2. ~mixed /\ (l.cmd \in Assigning => \A e \in Conns : ~Moves(todo[e]))
  BY DEF Enter, Busy, Moves
<1>3. /\ Single /\ Lasting /\ Resting
      /\ \A e \in Conns : Moves(todo[e]) => Sees(todo[e])
  BY <1>2 DEF ContextInv
<1>4. \A e \in Conns \ {c} : todo'[e] = todo[e]
  BY <1>1 DEF Others
<1>5. todo'[c].assigns # <<>> => l.cmd \in Assigning
  BY <1>1, <1>t, SwitchLists
<1>6. Single'
  BY <1>1, <1>2, <1>3, <1>4 DEF Single, Moves
<1>7. Resting'
  BY <1>1, <1>3, <1>4, NoLineIs DEF Resting
<1>8. Lasting'
  <2> SUFFICES ASSUME NEW e \in Conns, todo'[e].assigns # <<>> PROVE Known(Assigned(sess, todo'[e].assigns))
    BY <1>1 DEF Lasting
  <2>1. CASE e = c
    <3>1. \A f \in Conns : todo[f].assigns = <<>>
      BY <1>2, <1>5, <2>1, ListMoves
    <3>2. Known(sess)
      BY <1>3, <3>1 DEF Resting
    <3> QED BY <1>1, <1>t, <2>1, <3>2, SwitchKnown
  <2>2. CASE e # c
    BY <1>3, <1>4, <2>2 DEF Lasting
  <2> QED BY <2>1, <2>2
<1>9. ASSUME NEW e \in Conns, Moves(todo'[e]) PROVE Sees(todo[e])'
  BY <1>1, <1>3, <1>4, <1>9 DEF Sees
<1> QED BY <1>6, <1>7, <1>8, <1>9 DEF ContextInv, Moves

LEMMA AssignContext ==
    ASSUME TypesInv, ContextInv, NEW c \in Conns, AssignField(c)
    PROVE  ContextInv'
<1> SUFFICES ASSUME ~mixed' PROVE ContextInv'
  BY DEF ContextInv
<1> DEFINE as == todo[c].assigns
<1>1. /\ as # <<>> /\ ListOK(menu, as) /\ sess' = Done(sess, Head(as)) /\ mixed' = mixed
      /\ SessionOK(menu, sess') /\ SessionOK(menu, sess)
      /\ Unfolds(menu, sess, as, Head(as), Tail(as)) /\ todo'[c].assigns = Tail(as)
      /\ todo'[c] = NoLine \/ (todo'[c].line = todo[c].line /\ todo'[c].at = todo[c].at)
  BY FieldAssigned DEF TypesInv
<1>2. \A e \in Conns \ {c} :
        /\ todo'[e].assigns = todo[e].assigns /\ todo'[e].line = todo[e].line
        /\ todo'[e] = NoLine <=> todo[e] = NoLine
  BY FieldAssigned
<1>3. Single /\ Lasting
  BY <1>1 DEF ContextInv
<1>4. /\ Moves(todo[c]) /\ todo[c].at # "dispatch" /\ (todo[c].at = "record" => todo[c].line.cmd = "router")
  BY <1>1, ListMoves
<1>5. \A e \in Conns \ {c} : todo[e].assigns = <<>> /\ ~Moves(todo[e])
  BY <1>3, <1>4, OnlyList DEF Single
<1>6. Known(Assigned(sess', Tail(as)))
  BY <1>1, <1>3 DEF Unfolds, Lasting
<1>7. Single' /\ \A e \in Conns \ {c} : ~Moves(todo'[e])
  BY <1>2, <1>5 DEF Single, Moves
<1>8. Lasting'
  BY <1>1, <1>2, <1>5, <1>6 DEF Lasting
<1>9. Resting'
  <2> SUFFICES ASSUME Tail(as) = <<>> PROVE Known(sess')
    BY <1>1 DEF Resting
  <2> QED BY <1>1, <1>6, AssignedNone
<1>10. \A e \in Conns : Moves(todo'[e]) => Sees(todo[e])'
  BY <1>1, <1>4, <1>7 DEF Moves, Sees
<1> QED BY <1>7, <1>8, <1>9, <1>10 DEF ContextInv, Moves

LEMMA DispatchContext ==
    ASSUME TypesInv, ContextInv, NEW c \in Conns, Dispatch(c)
    PROVE  ContextInv'
<1> SUFFICES ASSUME ~mixed' PROVE ContextInv'
  BY DEF ContextInv
<1> DEFINE T == todo[c]
<1>1. PICK own \in ModesSeen(c), mode \in [Tests -> ModesSeen(c)] :
        LET view == [sess EXCEPT !.Mode = own, !.Iface = None]
            h == Handler(mode, dev.kind, T.config, T.line)
            r == Run(h, view, dev, T.line)
        IN  /\ UNCHANGED <<menu, sess, dev, running, startup, commands, history>>
            /\ T.at = "dispatch" /\ T.assigns = <<>> /\ T # NoLine
            /\ Others(c) /\ h \in Handlers
            /\ SentIs(menu, T, h, view, r, todo'[c])
            /\ HandledAs(view, dev, T.line, r)
  BY LineDispatched
<1> DEFINE view == [sess EXCEPT !.Mode = own, !.Iface = None]
           h == Handler(mode, dev.kind, T.config, T.line)
           r == Run(h, view, dev, T.line)
<1>2. /\ sess' = sess /\ mixed' = mixed /\ T.at = "dispatch" /\ T.assigns = <<>> /\ T # NoLine
      /\ todo'[c].line = T.line /\ todo'[c].at \in Handlers /\ todo'[c].assigns = r.assigns
      /\ todo'[c] # NoLine /\ LineOK(menu, todo'[c])
      /\ r.assigns = <<>> \/ Selects(T.line, r.assigns)
  BY <1>1 DEF SentIs, HandledAs, history
<1>3. \A e \in Conns \ {c} : todo'[e] = todo[e]
  BY <1>1 DEF Others
<1>4. /\ Single /\ Lasting /\ Resting
      /\ \A e \in Conns : Moves(todo[e]) => Sees(todo[e])
  BY <1>2 DEF ContextInv
<1>5. T.line \in menu /\ MenuOK(menu) /\ SessionOK(menu, sess)
  BY <1>2 DEF TypesInv, TodoOK, LineOK, Running
<1>6. ASSUME r.assigns # <<>> PROVE Known(Assigned(sess, r.assigns)) /\ T.line.cmd \in Assigning
  <2>1. T.line.cmd \in Assigning /\ Chooses(sess, T.line, Assigned(sess, r.assigns))
    BY <1>2, <1>5, <1>6, SelectsIs
  <2>2. Moves(T) /\ T.seen = {sess.Mode}
    BY <1>2, <1>4, <2>1 DEF Moves, Sees
  <2>3. Known(sess)
    BY <1>2, <1>4, <2>2, OnlyList DEF Resting
  <2>4. T.line.cmd = "class" => sess.Mode \in PolicyModes
    <3>1. mode["sub"] = sess.Mode
      BY <2>2 DEF ModesSeen, Tests
    <3>2. ASSUME T.line.cmd = "class" PROVE mode["sub"] \in PolicyModes
      <4>1. Moving(mode, view, dev, T.config, T.line)
        BY <1>6 DEF Moving
      <4> QED BY <3>2, <4>1, ClassTakes
    <3> QED BY <3>1, <3>2
  <2> HIDE DEF r, T
  <2> QED BY <1>5, <2>1, <2>3, <2>4, ChoosesKnown
<1> HIDE DEF r
<1>7. Single'
  BY <1>2, <1>3, <1>4 DEF Single, Moves
<1>8. Lasting'
  BY <1>2, <1>3, <1>4, <1>6 DEF Lasting
<1>9. Resting'
  BY <1>2, <1>3, <1>4 DEF Resting
<1>10. \A e \in Conns : Moves(todo'[e]) => Sees(todo[e])'
  BY <1>2, <1>3, <1>4, StagesAre DEF Sees
<1> QED BY <1>7, <1>8, <1>9, <1>10 DEF ContextInv, Moves

LEMMA OtherContext ==
    ASSUME TypesInv, ContextInv, NEW c \in Conns, Record(c) \/ ReadField(c) \/ Configure(c)
    PROVE  ContextInv'
<1> SUFFICES ASSUME ~mixed' PROVE ContextInv'
  BY DEF ContextInv
<1>1. /\ sess' = sess /\ mixed' = mixed /\ Others(c) /\ todo[c].assigns = <<>> /\ todo[c] # NoLine
      /\ todo'[c].assigns = <<>>
      /\ todo'[c] = NoLine \/ todo'[c].line = todo[c].line
      /\ todo'[c].seen = {sess.Mode} \/ todo'[c].at \in Handlers \/ todo'[c] = NoLine
  <2>1. CASE Record(c)
    BY <2>1, LineRecorded DEF NotedIs, history
  <2>2. CASE ReadField(c)
    BY <2>2, FieldRead DEF ToldIs, history
  <2>3. CASE Configure(c)
    BY <2>3, Configured, NoLineIs
  <2> QED BY <2>1, <2>2, <2>3
<1>2. /\ Single /\ Lasting /\ Resting
      /\ \A e \in Conns : Moves(todo[e]) => Sees(todo[e])
  BY <1>1 DEF ContextInv
<1>3. \A e \in Conns \ {c} : todo'[e] = todo[e]
  BY <1>1 DEF Others
<1>4. Single' /\ Lasting' /\ Resting'
  BY <1>1, <1>2, <1>3 DEF Single, Lasting, Resting, Moves
<1>5. \A e \in Conns : Moves(todo'[e]) => Sees(todo[e])'
  BY <1>1, <1>2, <1>3, StagesAre DEF Moves, Sees
<1> QED BY <1>4, <1>5 DEF ContextInv, Moves

LEMMA NextContext == TypesInv /\ ContextInv /\ [Next]_vars => ContextInv'
<1> SUFFICES ASSUME TypesInv, ContextInv, [Next]_vars PROVE ContextInv'
  OBVIOUS
<1>1. ASSUME NEW c \in Conns, NEW l \in menu, Enter(c, l) PROVE ContextInv'
  BY <1>1, EnterContext
<1>2. ASSUME NEW c \in Conns, AssignField(c) PROVE ContextInv'
  BY <1>2, AssignContext
<1>3. ASSUME NEW c \in Conns, Dispatch(c) PROVE ContextInv'
  BY <1>3, DispatchContext
<1>4. ASSUME NEW c \in Conns, Record(c) \/ ReadField(c) \/ Configure(c) PROVE ContextInv'
  BY <1>4, OtherContext
<1>5. ASSUME WriteMemory \/ UNCHANGED vars PROVE ContextInv'
  <2>1. sess' = sess /\ mixed' = mixed /\ todo' = todo
    BY <1>5 DEF WriteMemory, vars, history
  <2> QED BY <2>1 DEF ContextInv, Single, Lasting, Resting, Moves, Sees
<1>6. ASSUME NEW k \in Kinds, Replace(k) PROVE ContextInv'
  <2>1. /\ sess' = sess /\ mixed' = mixed
        /\ \A c \in Conns :
             /\ todo'[c] = NoLine <=> todo[c] = NoLine
             /\ todo'[c].line = todo[c].line /\ todo'[c].at = todo[c].at
             /\ todo'[c].assigns = todo[c].assigns /\ todo'[c].seen = todo[c].seen
    BY <1>6, Removed
  <2> QED BY <2>1 DEF ContextInv, Single, Lasting, Resting, Moves, Sees
<1> QED
  BY <1>1, <1>2, <1>3, <1>4, <1>5, <1>6 DEF Next

-----------------------------------------------------------------------------
(* A port stays selected outside its mode only after a jump.               *)

Clears(as) == \E i \in 1..3 : i \in DOMAIN as /\ as[i] = Assign("Iface", None)
Showing == sess.Mode = "config-if" \/ \E c \in Conns : Clears(todo[c].assigns)
Leaving(T) == T.line.cmd \in {"exit", "end"} => Clears(T.assigns) \/ sess.Iface = None
Choosing(T) ==
    T.line.cmd = "interface" /\ T.assigns = <<Assign("Iface", T.line.arg)>> => sess.Mode = "config-if"
Viewing(T) == T.view.Iface \in {None, T.shown}
PortInv ==
    ~mixed /\ ~jumped =>
        /\ Showing \/ sess.Iface = None
        /\ \A c \in Conns : todo[c] # NoLine => Leaving(todo[c]) /\ Choosing(todo[c]) /\ Viewing(todo[c])

LEMMA ShownIs == Showing \/ sess.Iface = None => Shown = sess.Iface
  BY DEF Showing, Shown, Clears

LEMMA ClearsTail ==
    ASSUME NEW m, NEW s, NEW as, NEW a, NEW more, Unfolds(m, s, as, a, more), Clears(as),
           a # Assign("Iface", None)
    PROVE  Clears(more)
<1>1. PICK i \in 1..3 : i \in DOMAIN as /\ as[i] = Assign("Iface", None)
  BY DEF Clears
<1>2. as[1] = a /\ (i = 1 \/ (i - 1 \in DOMAIN more /\ more[i - 1] = as[i]))
  BY <1>1 DEF Unfolds
<1>3. i # 1
  BY <1>1, <1>2
<1>4. i - 1 \in 1..3
  BY <1>1, <1>3
<1> QED BY <1>1, <1>2, <1>3, <1>4 DEF Clears

LEMMA SwitchClears ==
    ASSUME NEW mode, NEW l, l.cmd = "end" \/ (l.cmd = "exit" /\ mode = "config-if")
    PROVE  Clears(Switch(mode, l))
<1>1. PICK v \in {"config", "privileged"} :
        Switch(mode, l) = <<Assign("Mode", v), Assign("Iface", None), Assign("RouterProto", None)>>
  BY DEF Switch, Exit
<1> DEFINE a == Assign("Mode", v)
           b == Assign("Iface", None)
           c == Assign("RouterProto", None)
           as == <<a, b, c>>
<1>2. as[2] = b /\ 2 \in DOMAIN as /\ 2 \in 1..3
  OBVIOUS
<1>3. Switch(mode, l) = as
  BY <1>1
<1> HIDE DEF as
<1>4. Clears(as)
  BY <1>2 DEF Clears
<1> QED BY <1>3, <1>4

LEMMA OneOfTwo == ASSUME NEW a, NEW b, NEW c PROVE <<a, b>> # <<c>> /\ <<>> # <<c>>
  OBVIOUS

LEMMA InitPort == Init => PortInv
  BY DEF Init, PortInv, Session0

LEMMA EnterPort ==
    ASSUME TypesInv, ContextInv, PortInv, NEW c \in Conns, NEW l \in menu, Enter(c, l)
    PROVE  PortInv'
<1> SUFFICES ASSUME ~mixed', ~jumped' PROVE PortInv'
  BY DEF PortInv
<1>1. /\ sess' = sess /\ todo[c] = NoLine /\ todo[c].assigns = <<>> /\ Others(c) /\ jumped' = jumped
      /\ todo'[c].line = l /\ todo'[c].assigns = Switch(sess.Mode, l)
      /\ todo'[c].view.Iface = None
  BY Entered, NoLineIs, Session0OK DEF OpenedIs
<1>2. ~mixed /\ (l.cmd \in Assigning => \A e \in Conns : ~Moves(todo[e]))
  BY DEF Enter, Busy, Moves
<1>3. /\ Showing \/ sess.Iface = None
      /\ \A e \in Conns : todo[e] # NoLine => Leaving(todo[e]) /\ Choosing(todo[e]) /\ Viewing(todo[e])
  BY <1>1, <1>2 DEF PortInv
<1>4. \A e \in Conns \ {c} : todo'[e] = todo[e]
  BY <1>1 DEF Others
<1>5. Showing' \/ sess'.Iface = None
  <2>1. DOMAIN <<>> = {}
    OBVIOUS
  <2>2. ~Clears(todo[c].assigns)
    BY <1>1, <2>1 DEF Clears
  <2> QED BY <1>1, <1>3, <1>4, <2>2 DEF Showing
<1>6. Leaving(todo'[c])
  <2> SUFFICES ASSUME l.cmd \in {"exit", "end"}, ~Clears(Switch(sess.Mode, l)) PROVE sess.Iface = None
    BY <1>1 DEF Leaving
  <2>1. sess.Mode # "config-if"
    BY SwitchClears
  <2>2. \A e \in Conns : todo[e].assigns = <<>>
    BY <1>2, ListMoves DEF Assigning, SessionCmds
  <2>3. DOMAIN <<>> = {}
    OBVIOUS
  <2> QED BY <1>3, <2>1, <2>2, <2>3 DEF Showing, Clears
<1>7. Choosing(todo'[c])
  <2>1. l.cmd = "interface" => Switch(sess.Mode, l) = <<Assign("Mode", "config-if"), Assign("Iface", l.arg)>>
    BY DEF Switch
  <2> QED BY <1>1, <2>1, OneOfTwo DEF Choosing
<1>8. \A e \in Conns : todo'[e] # NoLine => (Leaving(todo[e]) /\ Choosing(todo[e]) /\ Viewing(todo[e]))'
  BY <1>1, <1>3, <1>4, <1>6, <1>7 DEF Leaving, Choosing, Viewing
<1> QED BY <1>5, <1>8 DEF PortInv

LEMMA AssignPort ==
    ASSUME TypesInv, ContextInv, PortInv, NEW c \in Conns, AssignField(c)
    PROVE  PortInv'
<1> SUFFICES ASSUME ~mixed', ~jumped' PROVE PortInv'
  BY DEF PortInv
<1> DEFINE T == todo[c]
           as == T.assigns
           a == Head(as)
           more == Tail(as)
<1>1. /\ as # <<>> /\ ListOK(menu, as) /\ sess' = Done(sess, a) /\ mixed' = mixed
      /\ SessionOK(menu, sess') /\ SessionOK(menu, sess)
      /\ Unfolds(menu, sess, as, a, more) /\ todo'[c].assigns = more
      /\ todo'[c] = NoLine \/ (todo'[c].line = T.line /\ todo'[c].view = T.view /\ todo'[c].shown = T.shown)
  BY FieldAssigned DEF TypesInv
<1>2. \A e \in Conns \ {c} :
        /\ todo'[e].assigns = todo[e].assigns /\ todo'[e].line = todo[e].line
        /\ todo'[e].view = todo[e].view /\ todo'[e].shown = todo[e].shown
        /\ todo'[e] = NoLine <=> todo[e] = NoLine
  BY FieldAssigned
<1>3. /\ ~jumped /\ (T.line.cmd \in {"exit", "end"} \/ ~Jumps(sess, sess'))
  BY DEF AssignField
<1>4. /\ Showing \/ sess.Iface = None
      /\ \A e \in Conns : todo[e] # NoLine => Leaving(todo[e]) /\ Choosing(todo[e]) /\ Viewing(todo[e])
  BY <1>1, <1>3 DEF PortInv
<1>5. Moves(T) /\ T # NoLine
  BY <1>1, ListMoves DEF Moves
<1>6. \A e \in Conns \ {c} : todo[e].assigns = <<>> /\ ~Moves(todo[e])
  BY <1>1, <1>5, OnlyList DEF Single, ContextInv
<1>7. Lists(T.line, as)
  BY <1>5 DEF TypesInv, TodoOK, LineOK, Running
<1>8. /\ Done(sess, a)[a.field] = a.value /\ Apart(sess, a.field, Done(sess, a))
      /\ 1 \in DOMAIN as /\ as[1] = a /\ a.field \in Names
  BY <1>1, DoneOK DEF Unfolds, ValueOK
<1> HIDE DEF T, a, more, as
<1>9. a # Assign("Iface", None) /\ Clears(as) => Clears(more)
  BY <1>1, ClearsTail
<1>10. ~Clears(as) => sess.Mode = "config-if" \/ sess.Iface = None
  <2>1. DOMAIN <<>> = {}
    OBVIOUS
  <2>2. \A e \in Conns \ {c} : ~Clears(todo[e].assigns)
    BY <1>6, <2>1 DEF Clears
  <2> QED BY <1>4, <2>2 DEF Showing, T, as
<1>11. Clears(more) => Showing'
  BY <1>1 DEF Showing
<1>12. \A e \in Conns \ {c} : todo'[e] # NoLine => todo[e].line.cmd \notin Assigning
  BY <1>2, <1>6 DEF Moves
<1>s. Assign("Iface", None).field = "Iface" /\ Assign("Iface", None).value = None
  BY WithIs
<1>n. "Mode" \in Names /\ "Iface" \in Names /\ {"exit", "end", "interface"} \subseteq Assigning
  BY DEF Names, Assigning, SessionCmds
<1>13. CASE T.line.cmd \in {"exit", "end"}
  <2>1. a = Assign("Iface", None) => sess'.Iface = None
    BY <1>1, <1>8, <1>s
  <2>2. a.field = "Iface" => a = Assign("Iface", None)
    BY <1>7, <1>8, <1>13 DEF Lists
  <2>3. a.field # "Iface" => sess'.Iface = sess.Iface
    BY <1>1, <1>8, <1>n DEF Apart
  <2>4. Clears(as) \/ sess.Iface = None
    BY <1>4, <1>5, <1>13 DEF Leaving, T, as
  <2>5. Clears(more) \/ sess'.Iface = None
    BY <1>9, <2>1, <2>2, <2>3, <2>4
  <2>6. \A e \in Conns : todo'[e] # NoLine => (Leaving(todo[e]) /\ Choosing(todo[e]) /\ Viewing(todo[e]))'
    BY <1>1, <1>2, <1>4, <1>5, <1>12, <1>13, <1>n, <2>5 DEF Leaving, Choosing, Viewing, T
  <2> QED BY <1>11, <2>5, <2>6 DEF PortInv
<1>14. CASE T.line.cmd = "interface"
  <2>1. \/ as = <<Assign("Mode", "config-if"), Assign("Iface", T.line.arg)>>
        \/ as = <<Assign("Iface", T.line.arg)>>
    BY <1>1, <1>7, <1>14 DEF Lists
  <2>2. sess'.Mode = "config-if"
    <3>1. CASE as = <<Assign("Iface", T.line.arg)>>
      <4>1. sess.Mode = "config-if"
        BY <1>4, <1>5, <1>14, <3>1 DEF Choosing, T, as
      <4>2. a = Assign("Iface", T.line.arg) /\ a.field = "Iface"
        BY <1>8, <3>1, WithIs
      <4> QED BY <1>1, <1>8, <1>n, <4>1, <4>2 DEF Apart
    <3>2. CASE as = <<Assign("Mode", "config-if"), Assign("Iface", T.line.arg)>>
      <4>1. a = Assign("Mode", "config-if") /\ a.field = "Mode" /\ a.value = "config-if"
        BY <1>8, <3>2, WithIs
      <4> QED BY <1>1, <1>8, <4>1
    <3> QED BY <2>1, <3>1, <3>2
  <2>3. \A e \in Conns : todo'[e] # NoLine => (Leaving(todo[e]) /\ Choosing(todo[e]) /\ Viewing(todo[e]))'
    BY <1>1, <1>2, <1>4, <1>5, <1>12, <1>14, <1>n, <2>2 DEF Leaving, Choosing, Viewing, T
  <2> QED BY <2>2, <2>3 DEF PortInv, Showing
<1>15. CASE T.line.cmd \notin {"exit", "end", "interface"}
  <2>1. \A i \in DOMAIN as : as[i].field # "Iface"
    BY <1>7, <1>15 DEF Lists
  <2>2. ~Clears(as) /\ sess'.Iface = sess.Iface
    BY <1>1, <1>8, <1>n, <1>s, <2>1 DEF Clears, Apart
  <2>3. Showing' \/ sess'.Iface = None
    BY <1>3, <1>10, <1>15, <2>2 DEF Jumps, Showing
  <2>4. \A e \in Conns : todo'[e] # NoLine => (Leaving(todo[e]) /\ Choosing(todo[e]) /\ Viewing(todo[e]))'
    BY <1>1, <1>2, <1>4, <1>5, <1>12, <1>15, <1>n DEF Leaving, Choosing, Viewing, T
  <2> QED BY <2>3, <2>4 DEF PortInv
<1> QED BY <1>13, <1>14, <1>15

LEMMA OtherPort ==
    ASSUME TypesInv, PortInv, NEW c \in Conns, Record(c) \/ Dispatch(c) \/ ReadField(c) \/ Configure(c)
    PROVE  PortInv'
<1> SUFFICES ASSUME ~mixed', ~jumped' PROVE PortInv'
  BY DEF PortInv
<1>0. LineOK(menu, todo[c])
  BY DEF TypesInv, TodoOK
<1>1. /\ sess' = sess /\ mixed' = mixed /\ jumped' = jumped /\ Others(c) /\ todo[c].assigns = <<>>
      /\ todo[c] # NoLine
      /\ \/ todo'[c] = NoLine
         \/ /\ todo'[c].line = todo[c].line /\ todo'[c].line.cmd \notin SessionCmds
            /\ todo'[c].view.Iface = None \/ todo'[c].shown = todo'[c].view.Iface
               \/ (todo'[c].view.Iface = todo[c].view.Iface /\ todo'[c].shown = todo[c].shown)
  <2>1. CASE Record(c)
    <3>1. PICK config \in BOOLEAN : NotedIs(menu, todo[c], config, sess.Mode, todo'[c])
      BY <2>1, LineRecorded
    <3>2. todo[c].line.cmd \notin SessionCmds
      BY <1>0, <2>1, NoLineIs DEF Record, LineOK, Running, Shape
    <3> QED BY <2>1, <3>1, <3>2, LineRecorded DEF NotedIs, history
  <2>2. CASE Dispatch(c)
    <3>1. \E own \in ModesSeen(c), h \in Handlers : \E r :
            SentIs(menu, todo[c], h, [sess EXCEPT !.Mode = own, !.Iface = None], r, todo'[c])
      BY <2>2, LineDispatched
    <3>2. SessionOK(menu, sess)
      BY DEF TypesInv
    <3>3. todo'[c].view.Iface = None /\ todo'[c].line = todo[c].line
      BY <3>1, <3>2 DEF SentIs, SessionOK
    <3>4. todo[c].line.cmd \notin SessionCmds
      BY <1>0, <2>2, NoLineIs DEF Dispatch, LineOK, Running, Shape
    <3> QED BY <2>2, <3>3, <3>4, LineDispatched DEF history
  <2>3. CASE ReadField(c)
    <3> DEFINE f == Head(todo[c].reads)
               p == IF f = "Iface" THEN Shown ELSE todo[c].shown
    <3>1. /\ UNCHANGED <<sess, history>> /\ todo[c].assigns = <<>> /\ todo[c] # NoLine
          /\ todo[c].at \in Handlers /\ Others(c)
          /\ ToldIs(menu, todo[c], sess, p, f, todo'[c])
      BY <2>3, FieldRead
    <3>2. todo[c].line.cmd \notin SessionCmds
      BY <1>0, <3>1, StagesAre DEF LineOK, Running, Shape
    <3>3. SessionOK(menu, todo[c].view)
      BY <1>0 DEF LineOK, LineTyped
    <3> HIDE DEF f
    <3>4. f # "Iface" => todo'[c].view.Iface = todo[c].view.Iface /\ todo'[c].shown = todo[c].shown
      BY <3>1, <3>3 DEF ToldIs, SessionOK
    <3>5. f = "Iface" => todo'[c].view.Iface = sess.Iface /\ todo'[c].shown = Shown
      BY <3>1, <3>3 DEF ToldIs, SessionOK
    <3>6. Shown = sess.Iface
      BY <3>1, ShownIs DEF PortInv, history
    <3> QED BY <3>1, <3>2, <3>4, <3>5, <3>6 DEF ToldIs, history
  <2>4. CASE Configure(c)
    BY <2>4, Configured
  <2> QED BY <2>1, <2>2, <2>3, <2>4
<1>2. /\ Showing \/ sess.Iface = None
      /\ \A e \in Conns : todo[e] # NoLine => Leaving(todo[e]) /\ Choosing(todo[e]) /\ Viewing(todo[e])
  BY <1>1 DEF PortInv
<1>3. \A e \in Conns \ {c} : todo'[e] = todo[e]
  BY <1>1 DEF Others
<1>4. Showing' \/ sess'.Iface = None
  <2>1. DOMAIN <<>> = {}
    OBVIOUS
  <2>2. ~Clears(todo[c].assigns)
    BY <1>1, <2>1 DEF Clears
  <2> QED BY <1>1, <1>2, <1>3, <2>2 DEF Showing
<1>5. \A e \in Conns : todo'[e] # NoLine => (Leaving(todo[e]) /\ Choosing(todo[e]) /\ Viewing(todo[e]))'
  BY <1>1, <1>2, <1>3 DEF Leaving, Choosing, Viewing, SessionCmds
<1> QED BY <1>4, <1>5 DEF PortInv

LEMMA NextPort == TypesInv /\ ContextInv /\ PortInv /\ [Next]_vars => PortInv'
<1> SUFFICES ASSUME TypesInv, ContextInv, PortInv, [Next]_vars PROVE PortInv'
  OBVIOUS
<1>1. ASSUME NEW c \in Conns, NEW l \in menu, Enter(c, l) PROVE PortInv'
  BY <1>1, EnterPort
<1>2. ASSUME NEW c \in Conns, AssignField(c) PROVE PortInv'
  BY <1>2, AssignPort
<1>3. ASSUME NEW c \in Conns, Record(c) \/ Dispatch(c) \/ ReadField(c) \/ Configure(c) PROVE PortInv'
  BY <1>3, OtherPort
<1>4. ASSUME WriteMemory \/ UNCHANGED vars PROVE PortInv'
  <2>1. sess' = sess /\ mixed' = mixed /\ jumped' = jumped /\ todo' = todo
    BY <1>4 DEF WriteMemory, vars, history
  <2> QED BY <2>1 DEF PortInv, Showing, Leaving, Choosing, Viewing
<1>5. ASSUME NEW k \in Kinds, Replace(k) PROVE PortInv'
  <2>1. /\ sess' = sess /\ mixed' = mixed /\ jumped' = jumped
        /\ \A c \in Conns :
             /\ todo'[c] = NoLine <=> todo[c] = NoLine
             /\ todo'[c].line = todo[c].line /\ todo'[c].assigns = todo[c].assigns
             /\ todo'[c].view = todo[c].view /\ todo'[c].shown = todo[c].shown
    BY <1>5, Removed
  <2> QED BY <2>1 DEF PortInv, Showing, Leaving, Choosing, Viewing
<1> QED
  BY <1>1, <1>2, <1>3, <1>4, <1>5 DEF Next

-----------------------------------------------------------------------------
(* What holds of every behaviour.                                          *)

ConsoleInv == TypesInv /\ ContextInv /\ PortInv

LEMMA ConsoleInvariant == Spec => []ConsoleInv
<1>1. Init => ConsoleInv
  BY InitTypes, InitContext, InitPort DEF ConsoleInv
<1>2. ConsoleInv /\ [Next]_vars => ConsoleInv'
  BY NextTypes, NextContext, NextPort DEF ConsoleInv
<1> QED
  BY <1>1, <1>2, PTL DEF Spec

(* Whoever types what, a mode has the names its lines are for while nobody *)
(* is assigning, as long as lines that assign fields never ran two at a    *)
(* time; what was saved is the beginning of what is running, and a policy  *)
(* map has each class once: Execute, AppendRunning, WriteMemory,           *)
(* AppendPolicyClass.                                                      *)
THEOREM ConsoleStaysSound == Spec => []ConsoleSound
<1>1. ConsoleInv => ConsoleSound
  <2> SUFFICES ASSUME TypesInv, ContextInv PROVE ConsoleSound
    BY DEF ConsoleInv
  <2>1. TypeOK
    <3>1. sess.Mode \in Modes /\ sess.Iface \in Ports \cup {None}
      BY DEF TypesInv, SessionOK
    <3>2. /\ dev.kind \in Kinds /\ DOMAIN dev.port = Ports \cup {None}
          /\ \A p \in DOMAIN dev.port : DOMAIN dev.port[p] = Attrs
      BY DEF TypesInv, DeviceOK, PortsOK, Places
    <3>3. \A i \in DOMAIN running : running[i] \in menu
      BY DEF TypesInv
    <3>4. \A c \in Busy : todo[c].line \in menu /\ todo[c].view.Mode \in Modes
      BY DEF TypesInv, TodoOK, LineOK, LineTyped, Running, SessionOK, Busy
    <3> QED
      BY <3>1, <3>2, <3>3, <3>4 DEF TypesInv, TypeOK
  <2>2. ContextKnown /\ SavedIsPrefix
    BY DEF TypesInv, ContextInv, ContextKnown, SavedIsPrefix, Resting, Known
  <2>3. ClassOnce
    BY DEF TypesInv, ClassOnce, DeviceOK, PoliciesOK, Once
  <2> QED
    BY <2>1, <2>2, <2>3 DEF ConsoleSound
<1> QED
  BY <1>1, ConsoleInvariant, PTL

(* No line makes an entry of a crypto map or a pool of the name typed, or  *)
(* puts a list in force on a port: execPolicyMapSub is asked before        *)
(* execCrypto, execIP ignores "ip dhcp pool", and ApplyIfaceACL gets the   *)
(* direction for the name.                                                 *)
THEOREM LinesStayWithoutEffect == Spec => []LinesWithoutEffect
<1>1. ConsoleInv => LinesWithoutEffect
  <2> SUFFICES ASSUME TypesInv PROVE LinesWithoutEffect
    BY DEF ConsoleInv
  <2>1. NoCryptoEntries /\ PoolsUnnamed
    BY DEF TypesInv, NoCryptoEntries, PoolsUnnamed, DeviceOK, Protos
  <2>2. None \notin ListNames
    BY DEF TypesInv, ListNames, DeviceOK, MenuOK
  <2>3. ListsNotApplied
    BY <2>2 DEF TypesInv, ListsNotApplied, DeviceOK, PortsOK, Directions, Typed, Places
  <2> QED
    BY <2>1, <2>3 DEF LinesWithoutEffect
<1> QED
  BY <1>1, ConsoleInvariant, PTL

(* A line changes a port that is not the default one only if it read that  *)
(* port while the session showed it, unless the mode was left by other     *)
(* lines than exit and end, or lines that assign fields ran two at a time. *)
THEOREM ShownPortConfigured == Spec => ConfiguresShownPort
<1>1. ASSUME ConsoleInv, [Next]_vars
      PROVE  [\A p \in Ports \ {RouterDefault, SwitchDefault} :
                dev'.port[p] # dev.port[p] =>
                   \/ \E c \in Conns : todo[c].shown = p /\ todo'[c] = NoLine
                   \/ jumped \/ mixed \/ replaced']_vars
  <2> SUFFICES ASSUME NEW p \in Ports \ {RouterDefault, SwitchDefault},
                      dev'.port[p] # dev.port[p], ~jumped, ~mixed, ~replaced'
               PROVE  \E c \in Conns : todo[c].shown = p /\ todo'[c] = NoLine
    OBVIOUS
  <2>0. TypesInv /\ PortInv
    BY <1>1 DEF ConsoleInv
  <2>1. ASSUME NEW c \in Conns, Configure(c)
        PROVE  todo[c].shown = p /\ todo'[c] = NoLine
    <3>1. Elsewhere(todo[c].view, dev, dev') /\ todo'[c] = NoLine /\ todo[c] # NoLine
      BY <2>0, <2>1, Configured
    <3>2. p \in Places /\ p # None
      BY ConsoleAssumption DEF Places
    <3>3. todo[c].view.Iface = p
      BY <3>1, <3>2 DEF Elsewhere, PortsFor
    <3>4. Viewing(todo[c])
      BY <2>0, <3>1 DEF PortInv
    <3> QED
      BY <3>1, <3>2, <3>3, <3>4 DEF Viewing
  <2>2. ~(\E k \in Kinds : Replace(k))
    BY DEF Replace
  <2>3. \E c \in Conns : Configure(c)
    <3>1. ASSUME NEW c \in Conns,
                 (\E l \in menu : Enter(c, l)) \/ AssignField(c) \/ Record(c) \/ Dispatch(c) \/ ReadField(c)
          PROVE  FALSE
      <4>1. dev' = dev
        BY <3>1 DEF Enter, AssignField, Record, Dispatch, ReadField
      <4> QED BY <4>1
    <3>2. ~WriteMemory /\ ~UNCHANGED vars
      BY DEF WriteMemory, vars
    <3> QED BY <1>1, <2>2, <3>1, <3>2 DEF Next
  <2> QED
    BY <2>1, <2>3
<1> QED
  BY <1>1, ConsoleInvariant, PTL DEF Spec, ConfiguresShownPort

-----------------------------------------------------------------------------
(* Replay.                                                                 *)

(* Where a replay begins, and how far it has come after each line.         *)
ReplayStart(kind) == Res([Session0 EXCEPT !.Mode = "config"], Fresh(kind))
Replayed(kind, lines, n, g) ==
    g = [i \in 0..n |-> IF i = 0 THEN ReplayStart(kind) ELSE ReplayLine(g[i - 1], lines[i])]

LEMMA LeastIndex ==
    ASSUME NEW T \in SUBSET Nat, T # {}
    PROVE  \E m \in T : \A k \in T : m <= k
<1> DEFINE R == OpToRel(<, Nat)
<1>1. IsWellFoundedOn(R, Nat)
  BY NatLessThanWellFounded
<1>2. PICK m \in T : \A k \in T : <<k, m>> \notin R
  <2> HIDE DEF R
  <2> QED BY <1>1, WFMin, Zenon
<1>3. \A k \in T : ~(k < m)
  BY <1>2 DEF OpToRel
<1> QED BY <1>3

LEMMA ReplayedParts ==
    ASSUME NEW kind, NEW lines, NEW n \in Nat, NEW g, Replayed(kind, lines, n, g)
    PROVE  /\ DOMAIN g = 0..n /\ g[0] = ReplayStart(kind)
           /\ \A i \in 1..n : g[i] = ReplayLine(g[i - 1], lines[i])
<1> DEFINE d(i) == IF i = 0 THEN ReplayStart(kind) ELSE ReplayLine(g[i - 1], lines[i])
<1>1. g = [i \in 0..n |-> d(i)]
  BY DEF Replayed
<1> HIDE DEF d
<1>2. DOMAIN g = 0..n /\ \A i \in 0..n : g[i] = d(i)
  BY <1>1
<1> QED BY <1>2 DEF d

LEMMA ReplayedExists ==
    ASSUME NEW kind, NEW lines, NEW n \in Nat
    PROVE  \E g : Replayed(kind, lines, n, g)
<1> DEFINE T == {k \in Nat : ~\E g : Replayed(kind, lines, k, g)}
<1> SUFFICES ASSUME T # {} PROVE FALSE
  OBVIOUS
<1>1. PICK m \in T : \A k \in T : m <= k
  BY LeastIndex
<1>2. CASE m = 0
  <2> DEFINE g == [i \in 0..0 |-> ReplayStart(kind)]
  <2>1. g = [i \in 0..0 |-> IF i = 0 THEN ReplayStart(kind) ELSE ReplayLine(g[i - 1], lines[i])]
    OBVIOUS
  <2>2. Replayed(kind, lines, m, g)
    BY <1>2, <2>1 DEF Replayed
  <2> QED BY <2>2
<1>3. CASE m # 0
  <2>1. m - 1 \in Nat /\ m - 1 \notin T
    BY <1>1, <1>3
  <2>2. PICK h : Replayed(kind, lines, m - 1, h)
    BY <2>1
  <2> DEFINE g == [i \in 0..m |-> IF i = m THEN ReplayLine(h[m - 1], lines[m]) ELSE h[i]]
  <2>3. /\ DOMAIN h = 0..m - 1 /\ h[0] = ReplayStart(kind)
        /\ \A i \in 1..m - 1 : h[i] = ReplayLine(h[i - 1], lines[i])
    BY <2>1, <2>2, ReplayedParts
  <2>4. ASSUME NEW i \in 0..m
        PROVE  g[i] = IF i = 0 THEN ReplayStart(kind) ELSE ReplayLine(g[i - 1], lines[i])
    <3>1. CASE i = m
      BY <1>3, <3>1
    <3>2. CASE i # m
      BY <2>3, <3>2
    <3> QED BY <3>1, <3>2
  <2>5. g = [i \in 0..m |-> IF i = 0 THEN ReplayStart(kind) ELSE ReplayLine(g[i - 1], lines[i])]
    <3>1. g = [i \in 0..m |-> g[i]]
      OBVIOUS
    <3> QED BY <2>4, <3>1
  <2>6. Replayed(kind, lines, m, g)
    BY <2>5 DEF Replayed
  <2> QED BY <2>6
<1> QED BY <1>2, <1>3

LEMMA ReplayIs ==
    ASSUME NEW kind, NEW lines, Len(lines) \in Nat
    PROVE  \E g : Replayed(kind, lines, Len(lines), g) /\ Replay(kind, lines) = g[Len(lines)]
<1> DEFINE g == CHOOSE g : Replayed(kind, lines, Len(lines), g)
<1>1. Replayed(kind, lines, Len(lines), g)
  <2>1. \E h : Replayed(kind, lines, Len(lines), h)
    BY ReplayedExists
  <2> QED BY <2>1, Zenon
<1>2. Replay(kind, lines) = g[Len(lines)]
  BY Zenon DEF Replay, Replayed, ReplayStart
<1> QED BY <1>1, <1>2

LEMMA ReplayEmpty == ASSUME NEW kind PROVE Replay(kind, <<>>) = ReplayStart(kind)
<1>1. Len(<<>>) = 0
  OBVIOUS
<1>2. PICK g : Replayed(kind, <<>>, Len(<<>>), g) /\ Replay(kind, <<>>) = g[Len(<<>>)]
  BY <1>1, ReplayIs
<1> QED BY <1>1, <1>2, ReplayedParts

(* A recorded line more is a line run more.                                *)
LEMMA ReplayAppend ==
    ASSUME NEW S, NEW kind, NEW lines \in Seq(S), NEW l \in S
    PROVE  Replay(kind, Append(lines, l)) = ReplayLine(Replay(kind, lines), l)
<1> DEFINE more == Append(lines, l)
           n == Len(lines)
<1>1. /\ n \in Nat /\ Len(more) = n + 1 /\ more[n + 1] = l
      /\ \A i \in 1..n : more[i] = lines[i]
  OBVIOUS
<1> HIDE DEF more, n
<1>2. PICK g : Replayed(kind, lines, n, g) /\ Replay(kind, lines) = g[n]
  BY <1>1, ReplayIs DEF n
<1>3. PICK h : Replayed(kind, more, n + 1, h) /\ Replay(kind, more) = h[n + 1]
  <2>1. Len(more) \in Nat
    BY <1>1
  <2> QED BY <2>1, <1>1, ReplayIs
<1>4. /\ g[0] = ReplayStart(kind)
      /\ \A i \in 1..n : g[i] = ReplayLine(g[i - 1], lines[i])
  BY <1>1, <1>2, ReplayedParts
<1>5. /\ h[0] = ReplayStart(kind)
      /\ \A i \in 1..n + 1 : h[i] = ReplayLine(h[i - 1], more[i])
  BY <1>1, <1>3, ReplayedParts
<1> DEFINE T == {k \in 0..n : h[k] # g[k]}
<1>6. T = {}
  <2> SUFFICES ASSUME T # {} PROVE FALSE
    OBVIOUS
  <2>1. T \in SUBSET Nat
    BY <1>1
  <2>2. PICK k \in T : \A j \in T : k <= j
    BY <2>1, LeastIndex
  <2>3. k # 0 /\ k \in 0..n
    BY <1>4, <1>5, <2>2
  <2>4. k - 1 \in 0..n /\ k - 1 \notin T /\ k \in 1..n /\ k \in 1..n + 1
    BY <1>1, <2>2, <2>3
  <2>5. h[k - 1] = g[k - 1]
    BY <2>4
  <2>6. h[k] = g[k]
    BY <1>1, <1>4, <1>5, <2>4, <2>5
  <2> QED BY <2>2, <2>6
<1>7. h[n] = g[n] /\ h[n + 1] = ReplayLine(h[n], l)
  <2>1. n \in 0..n /\ n + 1 \in 1..n + 1 /\ (n + 1) - 1 = n
    BY <1>1
  <2>2. h[n + 1] = ReplayLine(h[(n + 1) - 1], more[n + 1])
    BY <1>5, <2>1
  <2> QED BY <1>1, <1>6, <2>1, <2>2
<1> QED BY <1>2, <1>3, <1>7 DEF more

(* What the lines recorded so far give on any kind of device: no port is   *)
(* selected, since interface lines are not among them.                     *)
RecordsOK(k, r) ==
    /\ SessionOK(menu, r.sess) /\ DeviceOK(menu, r.dev)
    /\ r.sess.Mode \in ConfigModes /\ r.sess.Iface = None
    /\ r.dev.kind = k
    /\ \A p \in Ports \ {RouterDefault, SwitchDefault} : r.dev.port[p] = Fresh(k).port[p]

(* The replay is where the device is, or will be when the line that is     *)
(* being run has been: s, d and T are the session, the device, the line.   *)
At(s, d, r) == r.sess = Context(s) /\ r.dev = d
Agrees(s, T) ==
    \A i \in DOMAIN T.reads : /\ T.view[T.reads[i]] = s[T.reads[i]]
                              /\ \A j \in DOMAIN T.assigns : T.assigns[j].field # T.reads[i]
Returns(s, d, r, T) == T.at = "return" => At(s, d, r)
Records(s, d, r, T) ==
    T.at = "record" =>
        IF T.line.cmd = "router"
        THEN r.dev = d /\ Assigned(s, T.assigns) = AfterSwitch(r.sess, T.line)
        ELSE At(s, d, r) /\ T.seen = {s.Mode}
Dispatches(s, d, r, T) ==
    T.at = "dispatch" =>
        /\ T.seen = {s.Mode}
        /\ IF T.config THEN s.Mode \in ConfigModes /\ s.Iface = None /\ r = Handle(s, d, TRUE, T.line)
           ELSE At(s, d, r)
Configures(s, d, r, T) ==
    T.at \in Handlers =>
        IF T.config THEN /\ r.sess = Assigned(s, T.assigns) /\ r.dev = Run(T.at, T.view, d, T.line).dev
                         /\ Agrees(s, T)
        ELSE At(s, d, r)
Tracks(s, d, r, T) ==
    Returns(s, d, r, T) /\ Records(s, d, r, T) /\ Dispatches(s, d, r, T) /\ Configures(s, d, r, T)

Follows(s, d, t, r) ==
    /\ \A c, e \in Conns : t[c] # NoLine /\ t[e] # NoLine => c = e
    /\ (\A c \in Conns : t[c] = NoLine) => At(s, d, r)
    /\ \A c \in Conns : t[c] # NoLine => Tracks(s, d, r, t[c])

Orderly == ~overlapped /\ ~unrecorded /\ ~strayed /\ ~replaced
ReplayInv ==
    /\ \A k \in Kinds : RecordsOK(k, Replay(k, running))
    /\ Orderly => Follows(sess, dev, todo, Replay(dev.kind, running))

LEMMA ContextSame ==
    ASSUME NEW m, NEW s, SessionOK(m, s)
    PROVE  /\ s.Mode \in ConfigModes => Context(s) = s
           /\ Context(s).Iface = s.Iface /\ SessionOK(m, Context(s))
  BY DEF Context, SessionOK, ConfigModes, Modes

(* A recorded line assigns the same whether or not it came from a          *)
(* configuration mode.                                                     *)
LEMMA RouterSwitch ==
    ASSUME NEW m, NEW s, SessionOK(m, s), NEW l \in m, MenuOK(m), l.cmd = "router"
    PROVE  Assigned(s, Switch(s.Mode, l)) = AfterSwitch(Context(s), l)
<1>1. SessionOK(m, Context(s))
  BY ContextSame
<1> DEFINE t == Assigned(s, Switch(s.Mode, l))
           u == Assigned(Context(s), Switch(Context(s).Mode, l))
<1>2. t = With(With(s, "Mode", "config-router"), "RouterProto", l.arg)
  BY SwitchIs DEF Switches, Routes, SessionCmds
<1>3. u = With(With(Context(s), "Mode", "config-router"), "RouterProto", l.arg)
  BY <1>1, SwitchIs DEF Switches, Routes, SessionCmds
<1> HIDE DEF t, u
<1>4. t = u
  BY <1>2, <1>3 DEF With, Context, SessionOK
<1> QED BY <1>4 DEF t, u, AfterSwitch

LEMMA RecordedSwitch ==
    ASSUME NEW m, NEW s, SessionOK(m, s), NEW l \in m, MenuOK(m), l.cmd \notin SessionCmds
    PROVE  /\ SessionOK(m, AfterSwitch(s, l)) /\ AfterSwitch(s, l).Iface = s.Iface
           /\ l.cmd = "router" => AfterSwitch(s, l).Mode = "config-router"
           /\ l.cmd # "router" => AfterSwitch(s, l) = s
<1> DEFINE t == Assigned(s, Switch(s.Mode, l))
<1>1. ListOK(m, Switch(s.Mode, l)) /\ Switches(s, l, Switch(s.Mode, l), t)
  BY SwitchIs
<1>2. SessionOK(m, t)
  BY <1>1, AssignedOK
<1>3. AfterSwitch(s, l) = t
  BY DEF AfterSwitch
<1> HIDE DEF t
<1>4. /\ l.cmd = "router" => t = With(With(s, "Mode", "config-router"), "RouterProto", l.arg)
      /\ l.cmd # "router" => t = s
  BY <1>1 DEF Switches, SessionCmds, Routes
<1> QED BY <1>2, <1>3, <1>4 DEF With, SessionOK

HandledOK(m, s, d, q) ==
    /\ SessionOK(m, q.sess) /\ DeviceOK(m, q.dev) /\ Elsewhere(s, d, q.dev)
    /\ q.sess.Mode \in ConfigModes /\ q.sess.Iface = s.Iface

(* A handler leaves no configuration mode, and selects no port.            *)
LEMMA HandleOK ==
    ASSUME NEW m, MenuOK(m), NEW s, SessionOK(m, s), NEW d, DeviceOK(m, d), NEW config, NEW l \in m,
           s.Mode \in ConfigModes
    PROVE  HandledOK(m, s, d, Handle(s, d, config, l))
<1> DEFINE h == Handler([t \in Tests |-> s.Mode], d.kind, config, l)
           r == Run(h, s, d, l)
           q == Handle(s, d, config, l)
<1>1. h \in Handlers /\ Takes(h, l)
  BY HandlerTakes
<1>2. q.sess = Assigned(s, r.assigns) /\ q.dev = r.dev
  BY DEF Handle, Res
<1> HIDE DEF h, q
<1>3. HandledAs(s, d, l, r) /\ DeviceOK(m, r.dev) /\ Elsewhere(s, d, r.dev)
  BY <1>1, RunEffect, RunOK
<1> HIDE DEF r
<1>4. ListOK(m, r.assigns) /\ Chooses(s, l, q.sess)
  BY <1>2, <1>3, SelectsIs DEF HandledAs
<1>5. SessionOK(m, q.sess)
  BY <1>2, <1>4, AssignedOK
<1>6. q.sess.Mode \in ConfigModes /\ q.sess.Iface = s.Iface
  BY <1>4 DEF Chooses, With, SessionOK, ConfigModes, Modes
<1>7. HandledOK(m, s, d, q)
  BY <1>2, <1>3, <1>5, <1>6 DEF HandledOK
<1> QED BY <1>7 DEF q

(* A line that is recorded, replayed.                                      *)
LEMMA LineReplayed ==
    ASSUME NEW k, NEW r, RecordsOK(k, r), NEW l \in menu, l.cmd \notin SessionCmds, MenuOK(menu)
    PROVE  RecordsOK(k, ReplayLine(r, l))
<1> DEFINE s == AfterSwitch(r.sess, l)
           q == Handle(s, r.dev, Recorded(s.Mode, l), l)
<1>1. SessionOK(menu, s) /\ s.Iface = None /\ s.Mode \in ConfigModes
  BY RecordedSwitch DEF RecordsOK, ConfigModes, Modes
<1> HIDE DEF s
<1>2. HandledOK(menu, s, r.dev, q)
  BY <1>1, HandleOK DEF RecordsOK
<1>3. q = ReplayLine(r, l)
  BY DEF ReplayLine, s
<1>4. \A p \in Ports \ {RouterDefault, SwitchDefault} : p \in Places \ PortsFor(s)
  BY <1>1, ConsoleAssumption DEF PortsFor, Places
<1> HIDE DEF q
<1>5. RecordsOK(k, q)
  BY <1>1, <1>2, <1>4 DEF RecordsOK, HandledOK, Elsewhere
<1> QED BY <1>3, <1>5

LEMMA FollowsLine ==
    ASSUME NEW s, NEW d, NEW t, NEW r, NEW c \in Conns, \A e \in Conns \ {c} : t[e] = NoLine,
           IF t[c] = NoLine THEN At(s, d, r) ELSE Tracks(s, d, r, t[c])
    PROVE  Follows(s, d, t, r)
  BY DEF Follows

LEMMA OneLine ==
    ASSUME NEW s, NEW d, NEW t, NEW r, NEW c \in Conns, t[c] # NoLine, Follows(s, d, t, r)
    PROVE  Tracks(s, d, r, t[c]) /\ \A e \in Conns \ {c} : t[e] = NoLine
  BY DEF Follows

LEMMA InitReplay == Init => ReplayInv
<1> SUFFICES ASSUME Init PROVE ReplayInv
  OBVIOUS
<1>1. PICK m \in Menus : menu = m.lines /\ dev = Fresh(m.kind)
  BY DEF Init
<1> DEFINE S == [Session0 EXCEPT !.Mode = "config"]
<1>3. SessionOK(menu, S) /\ S.Mode \in ConfigModes /\ S.Iface = None
  BY DEF Session0, SessionOK, ConfigModes, Modes, PolicyModes, Args
<1>4. \A k : Replay(k, running).sess = S /\ Replay(k, running).dev = Fresh(k)
  <2>1. running = <<>>
    BY DEF Init
  <2> QED
    BY <2>1, ReplayEmpty DEF ReplayStart, Res
<1>5. ASSUME NEW k \in Kinds PROVE RecordsOK(k, Replay(k, running))
  <2>1. DeviceOK(menu, Fresh(k)) /\ Fresh(k).kind = k
    BY FreshOK DEF Fresh
  <2> QED
    BY <1>3, <1>4, <2>1 DEF RecordsOK
<1>6. Follows(sess, dev, todo, Replay(dev.kind, running))
  <2>1. dev.kind = m.kind
    BY <1>1 DEF Fresh
  <2>2. S = Context(sess)
    BY DEF Init, Context, Session0
  <2>3. \A c \in Conns : todo[c] = NoLine
    BY DEF Init
  <2> QED
    BY <1>1, <1>4, <2>1, <2>2, <2>3 DEF Follows, At
<1> QED
  BY <1>5, <1>6 DEF ReplayInv

(* While everything is orderly, the session is that of one line.           *)
LEMMA Orders ==
    ASSUME TypesInv, ReplayInv, Orderly
    PROVE  LET r == Replay(dev.kind, running)
           IN  Follows(sess, dev, todo, r) /\ RecordsOK(dev.kind, r)
  BY DEF ReplayInv, TypesInv, DeviceOK

LEMMA EnterFollows ==
    ASSUME TypesInv, ReplayInv, NEW c \in Conns, NEW l \in menu, Enter(c, l), Orderly'
    PROVE  Follows(sess', dev', todo', Replay(dev'.kind, running'))
<1> DEFINE r == Replay(dev.kind, running)
           T == todo'[c]
<1>1. /\ UNCHANGED <<menu, sess, dev, running, unrecorded, strayed, replaced>>
      /\ todo[c] = NoLine /\ Others(c) /\ T.line = l /\ T.at = First(l)
      /\ T.seen = {sess.Mode} /\ T.assigns = Switch(sess.Mode, l) /\ T # NoLine
  BY Entered DEF OpenedIs
<1>2. Orderly /\ \A e \in Conns : todo[e] = NoLine
  <2>1. overlapped' = (overlapped \/ Busy # {})
    BY DEF Enter
  <2>2. ~overlapped /\ Busy = {}
    BY <2>1, Zenon DEF Orderly
  <2> QED BY <1>1, <2>2 DEF Orderly, Busy
<1>3. At(sess, dev, r)
  BY <1>2, Orders DEF Follows
<1>4. MenuOK(menu) /\ SessionOK(menu, sess)
  BY DEF TypesInv
<1> HIDE DEF r, T
<1>5. Records(sess, dev, r, T)
  <2>1. CASE l.cmd = "router"
    <3>1. Assigned(sess, T.assigns) = AfterSwitch(r.sess, l)
      BY <1>1, <1>3, <1>4, <2>1, RouterSwitch DEF At
    <3> QED BY <1>1, <1>3, <2>1, <3>1 DEF Records, At
  <2>2. CASE l.cmd # "router"
    BY <1>1, <1>3, <2>2 DEF Records
  <2> QED BY <2>1, <2>2
<1>6. T.at \in {"return", "record"}
  BY <1>1 DEF First
<1>7. Tracks(sess, dev, r, T)
  BY <1>3, <1>5, <1>6, StagesAre DEF Tracks, Returns, Dispatches, Configures
<1>8. \A e \in Conns \ {c} : todo'[e] = NoLine
  BY <1>1, <1>2 DEF Others
<1> QED BY <1>1, <1>7, <1>8, FollowsLine DEF r, T

LEMMA AssignFollows ==
    ASSUME TypesInv, ReplayInv, NEW c \in Conns, AssignField(c), Orderly'
    PROVE  Follows(sess', dev', todo', Replay(dev'.kind, running'))
<1> DEFINE r == Replay(dev.kind, running)
           T == todo[c]
           X == todo'[c]
           a == Head(T.assigns)
           more == Tail(T.assigns)
<1>1. /\ UNCHANGED <<menu, dev, running, overlapped, replaced>>
      /\ T.assigns # <<>> /\ T # NoLine /\ sess' = Done(sess, a) /\ SessionOK(menu, sess')
      /\ Unfolds(menu, sess, T.assigns, a, more) /\ X.assigns = more
      /\ \/ /\ X # NoLine /\ X.line = T.line /\ X.at = T.at /\ X.config = T.config
            /\ X.reads = T.reads /\ X.view = T.view
         \/ X = NoLine /\ T.at = "return"
  BY FieldAssigned
<1>2. \A e \in Conns \ {c} : todo'[e] = NoLine <=> todo[e] = NoLine
  BY FieldAssigned
<1>3. /\ Orderly
      /\ T.at = "return" => Context(sess') = Context(sess)
      /\ T.at \in Handlers /\ ~T.config => sess' = sess
  <2>1. /\ strayed' = (strayed \/ (T.at = "return" /\ Context(sess') # Context(sess)))
        /\ unrecorded' = (unrecorded \/ (T.at \in Handlers /\ ~T.config /\ sess' # sess))
    BY Zenon DEF AssignField
  <2>2. overlapped' = overlapped /\ replaced' = replaced
    BY <1>1
  <2> HIDE DEF T
  <2> QED BY <2>1, <2>2, Zenon DEF Orderly
<1>4. Tracks(sess, dev, r, T) /\ \A e \in Conns \ {c} : todo[e] = NoLine
  BY <1>1, <1>3, Orders, OneLine
<1>5. T.at \in Stages /\ T.at # "dispatch" /\ (T.at = "record" => T.line.cmd = "router")
  BY <1>1, ListMoves DEF TypesInv, TodoOK, LineOK, Running
<1>6. SessionOK(menu, sess)
  BY DEF TypesInv
<1> HIDE DEF r, T, X, a, more
<1>7. CASE T.at = "return"
  <2>1. At(sess', dev, r)
    BY <1>3, <1>4, <1>7 DEF Tracks, Returns, At
  <2>2. X # NoLine => Tracks(sess', dev, r, X)
    BY <1>1, <1>7, <2>1, StagesAre DEF Tracks, Returns, Records, Dispatches, Configures
  <2> QED BY <1>1, <1>2, <1>4, <2>1, <2>2, FollowsLine DEF r, X
<1>8. CASE T.at = "record"
  <2>1. r.dev = dev /\ Assigned(sess, T.assigns) = AfterSwitch(r.sess, T.line) /\ X # NoLine
    BY <1>1, <1>4, <1>5, <1>8 DEF Tracks, Records
  <2>2. Assigned(sess', more) = Assigned(sess, T.assigns)
    BY <1>1 DEF Unfolds
  <2>3. Tracks(sess', dev, r, X)
    BY <1>1, <1>5, <1>8, <2>1, <2>2, StagesAre DEF Tracks, Returns, Records, Dispatches, Configures
  <2> QED BY <1>1, <1>2, <1>4, <2>1, <2>3, FollowsLine DEF r, X
<1>9. CASE T.at \in Handlers
  <2>1. X # NoLine
    BY <1>1, <1>9, StagesAre
  <2>2. CASE T.config
    <3>1. r.sess = Assigned(sess, T.assigns) /\ r.dev = Run(T.at, T.view, dev, T.line).dev /\ Agrees(sess, T)
      BY <1>4, <1>9, <2>2 DEF Tracks, Configures
    <3>2. Assigned(sess', more) = Assigned(sess, T.assigns)
      BY <1>1 DEF Unfolds
    <3>3. T.reads \in Seq(Names)
      BY DEF TypesInv, TodoOK, LineOK, LineTyped, T
    <3>4. Agrees(sess', X)
      <4>1. /\ Apart(sess, a.field, sess') /\ 1 \in DOMAIN T.assigns /\ T.assigns[1] = a
            /\ \A i \in DOMAIN more : i + 1 \in DOMAIN T.assigns /\ more[i] = T.assigns[i + 1]
        BY <1>1, <1>6, DoneOK DEF Unfolds
      <4>2. ASSUME NEW i \in DOMAIN T.reads
            PROVE  /\ T.view[T.reads[i]] = sess'[T.reads[i]]
                   /\ \A j \in DOMAIN more : more[j].field # T.reads[i]
        <5>1. /\ T.view[T.reads[i]] = sess[T.reads[i]] /\ T.reads[i] \in Names
              /\ \A j \in DOMAIN T.assigns : T.assigns[j].field # T.reads[i]
          BY <3>1, <3>3 DEF Agrees
        <5>2. T.reads[i] # a.field
          BY <4>1, <5>1
        <5> QED BY <4>1, <5>1, <5>2 DEF Apart
      <4> QED BY <1>1, <2>1, <4>2 DEF Agrees
    <3>5. Tracks(sess', dev, r, X)
      BY <1>1, <1>9, <2>1, <2>2, <3>1, <3>2, <3>4, StagesAre DEF Tracks, Returns, Records, Dispatches, Configures
    <3> QED BY <1>1, <1>2, <1>4, <2>1, <3>5, FollowsLine DEF r, X
  <2>3. CASE ~T.config
    <3>1. At(sess', dev, r)
      BY <1>3, <1>4, <1>9, <2>3 DEF Tracks, Configures
    <3>2. Tracks(sess', dev, r, X)
      BY <1>1, <1>9, <2>1, <2>3, <3>1, StagesAre DEF Tracks, Returns, Records, Dispatches, Configures
    <3> QED BY <1>1, <1>2, <1>4, <2>1, <3>2, FollowsLine DEF r, X
  <2> QED BY <2>2, <2>3
<1> QED BY <1>5, <1>7, <1>8, <1>9 DEF Stages

LEMMA RecordFollows ==
    ASSUME TypesInv, ReplayInv, NEW c \in Conns, Record(c), Orderly'
    PROVE  Follows(sess', dev', todo', Replay(dev'.kind, running'))
<1> DEFINE r == Replay(dev.kind, running)
           q == Replay(dev.kind, running')
           T == todo[c]
           X == todo'[c]
           l == T.line
<1>1. PICK mode \in ModesSeen(c), config \in BOOLEAN :
        /\ UNCHANGED <<menu, sess, dev, startup, commands, history>>
        /\ config <=> Recorded(mode, T.line)
        /\ running' = IF config THEN AppendRunning(running, T.line) ELSE running
        /\ T.at = "record" /\ T.assigns = <<>> /\ T # NoLine /\ Others(c)
        /\ NotedIs(menu, T, config, sess.Mode, X)
  BY LineRecorded
<1>2. Orderly
  BY <1>1 DEF Orderly, history
<1>3. Tracks(sess, dev, r, T) /\ (\A e \in Conns \ {c} : todo[e] = NoLine) /\ RecordsOK(dev.kind, r)
  BY <1>1, <1>2, Orders, OneLine
<1>4. /\ l \in menu /\ l.cmd \notin SessionCmds /\ MenuOK(menu) /\ SessionOK(menu, sess)
      /\ running \in Seq(menu)
  BY <1>1 DEF TypesInv, TodoOK, LineOK, Running, Shape
<1>5. /\ X # NoLine /\ X.line = l /\ X.at = "dispatch" /\ X.config = config /\ X.seen = {sess.Mode}
  BY <1>1 DEF NotedIs
<1>6. \A e \in Conns \ {c} : todo'[e] = NoLine
  BY <1>1, <1>3 DEF Others
<1>7. q = IF config THEN ReplayLine(r, l) ELSE r
  BY <1>1, <1>4, ReplayAppend DEF AppendRunning
<1>8. mode = sess.Mode \/ l.cmd = "router"
  BY <1>1, <1>3 DEF Tracks, Records, ModesSeen
<1> HIDE DEF r, q, X
<1>9. CASE config
  <2>1. AfterSwitch(r.sess, l) = sess /\ r.dev = dev /\ Recorded(sess.Mode, l) = TRUE
        /\ sess.Mode \in ConfigModes /\ sess.Iface = None
    <3>0. SessionOK(menu, r.sess) /\ r.sess.Iface = None
      BY <1>3 DEF RecordsOK
    <3>1. CASE l.cmd = "router"
      <4>1. r.dev = dev /\ AfterSwitch(r.sess, l) = sess
        BY <1>1, <1>3, <1>4, <3>1, AssignedNone DEF Tracks, Records
      <4>2. sess.Mode = "config-router" /\ sess.Iface = None
        BY <1>4, <3>0, <3>1, <4>1, RecordedSwitch
      <4> QED BY <3>1, <4>1, <4>2 DEF Recorded, ConfigModes, Modes
    <3>2. CASE l.cmd # "router"
      <4>1. sess.Mode \in ConfigModes
        BY <1>1, <1>8, <1>9, <3>2 DEF Recorded
      <4>2. r.dev = dev /\ r.sess = sess
        BY <1>1, <1>3, <1>4, <3>2, <4>1, ContextSame DEF Tracks, Records, At
      <4>3. AfterSwitch(r.sess, l) = sess
        BY <1>4, <3>2, <4>2, RecordedSwitch
      <4> QED BY <3>0, <3>2, <4>1, <4>2, <4>3 DEF Recorded
    <3> QED BY <3>1, <3>2
  <2>2. q = Handle(sess, dev, TRUE, l)
    BY <1>7, <1>9, <2>1 DEF ReplayLine
  <2>3. Tracks(sess, dev, q, X)
    BY <1>5, <1>9, <2>1, <2>2, StagesAre DEF Tracks, Returns, Records, Dispatches, Configures
  <2> QED BY <1>1, <1>5, <1>6, <2>3, FollowsLine DEF q, X
<1>10. CASE ~config
  <2>1. l.cmd # "router"
    BY <1>1, <1>10 DEF Recorded
  <2>2. At(sess, dev, q)
    BY <1>1, <1>3, <1>7, <1>10, <2>1 DEF Tracks, Records
  <2>3. Tracks(sess, dev, q, X)
    BY <1>5, <1>10, <2>2, StagesAre DEF Tracks, Returns, Records, Dispatches, Configures
  <2> QED BY <1>1, <1>5, <1>6, <2>3, FollowsLine DEF q, X
<1> QED BY <1>9, <1>10

(* A handler does not read what it assigns.                                *)
LEMMA ReadsApart ==
    ASSUME NEW l, NEW as, NEW rs, as = <<>> \/ Selects(l, as), Reads(l, as, rs)
    PROVE  \A i \in DOMAIN rs, j \in DOMAIN as : as[j].field # rs[i]
<1>1. CASE as = <<>> \/ rs = <<>>
  <2>1. DOMAIN <<>> = {}
    OBVIOUS
  <2> QED BY <1>1, <2>1
<1>2. CASE l.cmd = "class" /\ rs = <<"PolicyMapName">> /\ as # <<>>
  <2> DEFINE a == Assign("Mode", "config-policy-class")
             b == Assign("PolicyClassName", l.arg)
  <2>1. as = <<a, b>>
    BY <1>2 DEF Selects
  <2>2. a.field # "PolicyMapName" /\ b.field # "PolicyMapName"
    BY WithIs
  <2> HIDE DEF a, b
  <2> QED BY <1>2, <2>1, <2>2
<1> QED BY <1>1, <1>2 DEF Reads

LEMMA DispatchFollows ==
    ASSUME TypesInv, ReplayInv, NEW c \in Conns, Dispatch(c), Orderly'
    PROVE  Follows(sess', dev', todo', Replay(dev'.kind, running'))
<1> DEFINE r == Replay(dev.kind, running)
           T == todo[c]
           X == todo'[c]
<1>1. PICK own \in ModesSeen(c), mode \in [Tests -> ModesSeen(c)] :
        LET view == [sess EXCEPT !.Mode = own, !.Iface = None]
            h == Handler(mode, dev.kind, T.config, T.line)
            w == Run(h, view, dev, T.line)
        IN  /\ UNCHANGED <<menu, sess, dev, running, startup, commands, history>>
            /\ T.at = "dispatch" /\ T.assigns = <<>> /\ T # NoLine
            /\ Others(c) /\ h \in Handlers
            /\ SentIs(menu, T, h, view, w, X)
            /\ HandledAs(view, dev, T.line, w)
  BY LineDispatched
<1> DEFINE view == [sess EXCEPT !.Mode = own, !.Iface = None]
           h == Handler(mode, dev.kind, T.config, T.line)
           w == Run(h, view, dev, T.line)
<1>2. /\ UNCHANGED <<sess, dev, running, history>> /\ T.at = "dispatch" /\ T # NoLine /\ Others(c)
      /\ X # NoLine /\ X.line = T.line /\ X.at = h /\ h \in Handlers /\ X.config = T.config
      /\ X.assigns = w.assigns /\ X.reads = w.reads /\ X.view = view
      /\ w.assigns = <<>> \/ Selects(T.line, w.assigns)
      /\ Reads(T.line, w.assigns, w.reads)
  BY <1>1 DEF SentIs, HandledAs
<1>3. Orderly
  BY <1>2 DEF Orderly, history
<1>4. Tracks(sess, dev, r, T) /\ \A e \in Conns \ {c} : todo[e] = NoLine
  BY <1>2, <1>3, Orders, OneLine
<1>5. \A e \in Conns \ {c} : todo'[e] = NoLine
  BY <1>2, <1>4 DEF Others
<1>6. SessionOK(menu, sess)
  BY DEF TypesInv
<1>7. ModesSeen(c) = {sess.Mode}
  BY <1>2, <1>4 DEF Tracks, Dispatches, ModesSeen
<1>8. own = sess.Mode /\ mode = [t \in Tests |-> sess.Mode]
  BY <1>7
<1>9. CASE T.config
  <2>1. sess.Iface = None /\ r = Handle(sess, dev, TRUE, T.line) /\ T.config = TRUE
    <3>1. T.config \in BOOLEAN
      BY DEF TypesInv, TodoOK, LineOK, LineTyped
    <3> QED BY <1>2, <1>4, <1>9, <3>1 DEF Tracks, Dispatches
  <2>2. view = sess
    BY <1>6, <1>8, <2>1 DEF SessionOK
  <2> DEFINE g == Handler([t \in Tests |-> sess.Mode], dev.kind, TRUE, T.line)
  <2>3. h = g
    BY <1>8, <2>1
  <2>4. r = Res(Assigned(sess, Run(g, sess, dev, T.line).assigns), Run(g, sess, dev, T.line).dev)
    BY <2>1 DEF Handle
  <2> HIDE DEF g, view, r
  <2>5. w = Run(g, sess, dev, T.line)
    BY <2>2, <2>3
  <2>6. r.sess = Assigned(sess, w.assigns) /\ r.dev = w.dev
    BY <2>4, <2>5 DEF Res
  <2>7. Agrees(sess, X)
    <3> HIDE DEF w, T, X
    <3>1. \A i \in DOMAIN w.reads, j \in DOMAIN w.assigns : w.assigns[j].field # w.reads[i]
      BY <1>2, ReadsApart
    <3> QED BY <1>2, <2>2, <3>1 DEF Agrees
  <2>8. w = Run(X.at, X.view, dev, X.line)
    BY <1>2, <2>2, <2>3, <2>5
  <2> HIDE DEF w, h, T, X
  <2>9. Tracks(sess, dev, r, X)
    BY <1>2, <1>9, <2>6, <2>7, <2>8, StagesAre DEF Tracks, Returns, Records, Dispatches, Configures
  <2> QED BY <1>2, <1>5, <2>9, FollowsLine DEF r, X
<1>10. CASE ~T.config
  <2> HIDE DEF w, h, T, X, r
  <2>1. At(sess, dev, r)
    BY <1>2, <1>4, <1>10 DEF Tracks, Dispatches
  <2>2. Tracks(sess, dev, r, X)
    BY <1>2, <1>10, <2>1, StagesAre DEF Tracks, Returns, Records, Dispatches, Configures
  <2> QED BY <1>2, <1>5, <2>2, FollowsLine DEF r, X
<1> QED BY <1>9, <1>10

LEMMA ReadFollows ==
    ASSUME TypesInv, ReplayInv, NEW c \in Conns, ReadField(c), Orderly'
    PROVE  Follows(sess', dev', todo', Replay(dev'.kind, running'))
<1> DEFINE r == Replay(dev.kind, running)
           T == todo[c]
           X == todo'[c]
           f == Head(T.reads)
           p == IF f = "Iface" THEN Shown ELSE T.shown
<1>1. /\ UNCHANGED <<menu, sess, dev, running, startup, commands, history>>
      /\ T.assigns = <<>> /\ T.reads # <<>> /\ T # NoLine /\ T.at \in Handlers /\ Others(c)
      /\ ToldIs(menu, T, sess, p, f, X)
  BY FieldRead
<1> HIDE DEF p
<1>2. Orderly
  BY <1>1 DEF Orderly, history
<1>3. Tracks(sess, dev, r, T) /\ \A e \in Conns \ {c} : todo[e] = NoLine
  BY <1>1, <1>2, Orders, OneLine
<1>4. \A e \in Conns \ {c} : todo'[e] = NoLine
  BY <1>1, <1>3 DEF Others
<1>5. /\ X # NoLine /\ X.line = T.line /\ X.at = T.at /\ X.config = T.config /\ X.assigns = T.assigns
      /\ X.reads = Tail(T.reads) /\ X.view = [T.view EXCEPT ![f] = sess[f]]
  BY <1>1 DEF ToldIs
<1>6. /\ SessionOK(menu, T.view) /\ T.reads \in Seq(Names)
  BY DEF TypesInv, TodoOK, LineOK, LineTyped
<1>7. /\ 1 \in DOMAIN T.reads /\ f = T.reads[1]
      /\ \A i \in DOMAIN Tail(T.reads) : i + 1 \in DOMAIN T.reads /\ Tail(T.reads)[i] = T.reads[i + 1]
  BY <1>1, <1>6, Parts
<1> HIDE DEF r, T, X, f
<1>8. CASE T.config
  <2>1. /\ r.sess = Assigned(sess, T.assigns) /\ r.dev = Run(T.at, T.view, dev, T.line).dev
        /\ Agrees(sess, T)
    BY <1>1, <1>3, <1>8 DEF Tracks, Configures
  <2>2. T.view[f] = sess[f]
    BY <1>7, <2>1 DEF Agrees
  <2>3. X.view = T.view
    <3>1. [T.view EXCEPT ![f] = T.view[f]] = T.view
      BY <1>6 DEF SessionOK
    <3> QED BY <1>5, <2>2, <3>1
  <2>4. Agrees(sess, X)
    BY <1>5, <1>7, <2>1, <2>3 DEF Agrees
  <2>5. Tracks(sess, dev, r, X)
    BY <1>1, <1>5, <1>8, <2>1, <2>3, <2>4, StagesAre DEF Tracks, Returns, Records, Dispatches, Configures
  <2> QED BY <1>1, <1>4, <1>5, <2>5, FollowsLine DEF r, X
<1>9. CASE ~T.config
  <2>1. At(sess, dev, r)
    BY <1>1, <1>3, <1>9 DEF Tracks, Configures
  <2>2. Tracks(sess, dev, r, X)
    BY <1>1, <1>5, <1>9, <2>1, StagesAre DEF Tracks, Returns, Records, Dispatches, Configures
  <2> QED BY <1>1, <1>4, <1>5, <2>2, FollowsLine DEF r, X
<1> QED BY <1>8, <1>9

LEMMA ConfigureFollows ==
    ASSUME TypesInv, ReplayInv, NEW c \in Conns, Configure(c), Orderly'
    PROVE  Follows(sess', dev', todo', Replay(dev'.kind, running'))
<1> DEFINE r == Replay(dev.kind, running)
           T == todo[c]
<1>1. /\ UNCHANGED <<menu, sess, running, startup, commands, overlapped, mixed, strayed, jumped, replaced>>
      /\ T.at \in Handlers /\ T.assigns = <<>> /\ T.reads = <<>> /\ T # NoLine
      /\ dev' = Run(T.at, T.view, dev, T.line).dev \/ (T.stale /\ dev' = dev)
      /\ unrecorded' = (unrecorded \/ (~T.config /\ dev' # dev))
      /\ Elsewhere(T.view, dev, dev') /\ todo'[c] = NoLine /\ Others(c)
  BY Configured
<1>2. Orderly /\ (T.config \/ dev' = dev)
  BY <1>1 DEF Orderly
<1>3. Tracks(sess, dev, r, T) /\ (\A e \in Conns \ {c} : todo[e] = NoLine) /\ RecordsOK(dev.kind, r)
  BY <1>1, <1>2, Orders, OneLine
<1>4. \A e \in Conns \ {c} : todo'[e] = NoLine
  BY <1>1, <1>3 DEF Others
<1>5. SessionOK(menu, sess) /\ ~T.stale
  BY <1>2 DEF TypesInv, Orderly
<1>6. Replay(dev'.kind, running') = r
  BY <1>1 DEF Elsewhere
<1> HIDE DEF r, T
<1>7. At(sess, dev', r)
  <2>1. CASE T.config
    <3>1. r.sess = Assigned(sess, <<>>) /\ r.dev = dev'
      BY <1>1, <1>3, <1>5, <2>1 DEF Tracks, Configures
    <3>2. r.sess = sess
      BY <1>5, <3>1, AssignedNone
    <3>3. sess.Mode \in ConfigModes
      BY <1>3, <3>2 DEF RecordsOK
    <3> QED BY <1>5, <3>1, <3>2, <3>3, ContextSame DEF At
  <2>2. CASE ~T.config
    BY <1>1, <1>2, <1>3, <2>2 DEF Tracks, Configures
  <2> QED BY <2>1, <2>2
<1> QED BY <1>1, <1>4, <1>6, <1>7, FollowsLine

LEMMA NextRecords ==
    ASSUME TypesInv, ReplayInv, [Next]_vars, NEW k \in Kinds
    PROVE  RecordsOK(k, Replay(k, running))'
<1>0. RecordsOK(k, Replay(k, running)) /\ MenuOK(menu) /\ running \in Seq(menu)
  BY DEF ReplayInv, TypesInv
<1>1. CASE UNCHANGED <<menu, running>>
  BY <1>0, <1>1 DEF RecordsOK
<1>2. CASE \E c \in Conns : Record(c)
  <2>1. PICK c \in Conns : Record(c)
    BY <1>2
  <2>2. /\ menu' = menu /\ todo[c].at = "record" /\ todo[c] # NoLine
        /\ running' = running \/ running' = Append(running, todo[c].line)
    BY <2>1, LineRecorded DEF AppendRunning
  <2>3. todo[c].line \in menu /\ todo[c].line.cmd \notin SessionCmds
    BY <2>2 DEF TypesInv, TodoOK, LineOK, Running, Shape
  <2>4. CASE running' = Append(running, todo[c].line)
    <3>1. Replay(k, running') = ReplayLine(Replay(k, running), todo[c].line)
      BY <1>0, <2>3, <2>4, ReplayAppend
    <3>2. RecordsOK(k, Replay(k, running'))
      BY <1>0, <2>3, <3>1, LineReplayed
    <3> QED BY <2>2, <3>2 DEF RecordsOK
  <2> QED BY <1>1, <2>2, <2>4
<1>3. \/ UNCHANGED <<menu, running>> \/ \E c \in Conns : Record(c)
  <2>1. ASSUME NEW c \in Conns,
               (\E l \in menu : Enter(c, l)) \/ AssignField(c) \/ Dispatch(c) \/ ReadField(c) \/ Configure(c)
        PROVE  UNCHANGED <<menu, running>>
    BY <2>1 DEF Enter, Command, AssignField, Dispatch, ReadField, Configure
  <2>2. WriteMemory \/ (\E j \in Kinds : Replace(j)) \/ UNCHANGED vars => UNCHANGED <<menu, running>>
    BY DEF WriteMemory, Replace, Command, vars
  <2> QED BY <2>1, <2>2 DEF Next
<1> QED BY <1>1, <1>2, <1>3

LEMMA NextFollows ==
    ASSUME TypesInv, ReplayInv, [Next]_vars, Orderly'
    PROVE  Follows(sess', dev', todo', Replay(dev'.kind, running'))
<1> DEFINE goal == Follows(sess', dev', todo', Replay(dev'.kind, running'))
<1>1. ASSUME NEW c \in Conns, NEW l \in menu, Enter(c, l) PROVE goal
  BY <1>1, EnterFollows
<1>2. ASSUME NEW c \in Conns, AssignField(c) PROVE goal
  BY <1>2, AssignFollows
<1>3. ASSUME NEW c \in Conns, Record(c) PROVE goal
  BY <1>3, RecordFollows
<1>4. ASSUME NEW c \in Conns, Dispatch(c) PROVE goal
  BY <1>4, DispatchFollows
<1>5. ASSUME NEW c \in Conns, ReadField(c) PROVE goal
  BY <1>5, ReadFollows
<1>6. ASSUME NEW c \in Conns, Configure(c) PROVE goal
  BY <1>6, ConfigureFollows
<1>7. ASSUME WriteMemory \/ UNCHANGED vars PROVE goal
  <2>1. UNCHANGED <<sess, dev, todo, running>> /\ Orderly
    BY <1>7 DEF WriteMemory, vars, history, Orderly
  <2> QED BY <2>1, Orders
<1>8. ~(\E k \in Kinds : Replace(k))
  BY DEF Replace, Orderly
<1> HIDE DEF goal
<1>9. goal
  BY <1>1, <1>2, <1>3, <1>4, <1>5, <1>6, <1>7, <1>8 DEF Next
<1> QED BY <1>9 DEF goal

LEMMA NextReplay == TypesInv /\ ReplayInv /\ [Next]_vars => ReplayInv'
<1> SUFFICES ASSUME TypesInv, ReplayInv, [Next]_vars PROVE ReplayInv'
  OBVIOUS
<1>1. \A k \in Kinds : RecordsOK(k, Replay(k, running))'
  BY NextRecords
<1>2. Orderly' => Follows(sess', dev', todo', Replay(dev'.kind, running'))
  BY NextFollows
<1> QED
  BY <1>1, <1>2 DEF ReplayInv

(* ExecuteConfig gives the device back under the conditions that           *)
(* ReplayGivesDevice names, and never a port's settings: AppendRunning     *)
(* records no interface line.                                              *)
THEOREM ReplayStaysSound == Spec => []ReplaySound
<1>1. TypesInv /\ ReplayInv => ReplaySound
  <2> SUFFICES ASSUME TypesInv, ReplayInv PROVE ReplaySound
    OBVIOUS
  <2>1. dev.kind \in Kinds
    BY DEF TypesInv, DeviceOK
  <2>2. ReplayMissesPorts
    BY <2>1 DEF ReplayInv, RecordsOK, ReplayMissesPorts
  <2>3. ReplayGivesDevice
    <3> SUFFICES ASSUME Busy = {}, Orderly PROVE Replay(dev.kind, running).dev = dev
      BY DEF ReplayGivesDevice, Orderly
    <3> QED
      BY Orders DEF Follows, At, Busy
  <2> QED
    BY <2>2, <2>3 DEF ReplaySound
<1> QED
  BY <1>1, InitReplay, NextReplay, TypesInvariant, PTL DEF Spec

=============================================================================
