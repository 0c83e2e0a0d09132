----------------------------- MODULE Zones_proof -----------------------------
(***************************************************************************)
(* What the zones, services and policies of firewalld decide, for any of   *)
(* them: the templates of an element hit what the element holds of, the    *)
(* rules that are made of a zone hit where its binding or source and one   *)
(* of its templates do, a packet falls into one zone, and what denies      *)
(* stays first.  Importers_proof shows what becomes of the rules.          *)
(***************************************************************************)
EXTENDS Importers_proof

-----------------------------------------------------------------------------
(* What firewalld's configuration lets in: the list of its rules.          *)

\* Of what is in H, that which is in D goes first.
Sorted(l, H, D) ==
  \A j, k \in 1 .. Len(l) : j < k /\ l[j] \in H /\ l[k] \in H /\ l[k] \in D => l[j] \in D

\* A flattened sequence has what its parts have, and nothing else.
LEMMA FlatHas ==
  ASSUME NEW S, NEW seqs \in Seq(Seq(S))
  PROVE  LET flat == FlattenSeq(seqs) IN
         /\ flat \in Seq(S)
         /\ \A k \in 1 .. Len(flat) : \E i \in 1 .. Len(seqs) : \E j \in 1 .. Len(seqs[i]) : flat[k] = seqs[i][j]
         /\ \A i \in 1 .. Len(seqs) : \A j \in 1 .. Len(seqs[i]) : \E k \in 1 .. Len(flat) : flat[k] = seqs[i][j]
<1> DEFINE flat == FlattenSeq(seqs)  n == Len(seqs)
<1>1. flat \in Seq(S) /\ \E own, pos : Comes(flat, seqs, n, own, pos)
  BY FlattenIndex
<1>2. PICK own, pos : Comes(flat, seqs, n, own, pos)
  BY <1>1
<1> HIDE DEF flat, n
<1>3. ASSUME NEW k \in 1 .. Len(flat)
      PROVE  \E i \in 1 .. n : \E j \in 1 .. Len(seqs[i]) : flat[k] = seqs[i][j]
  <2>1. own[k] \in 1 .. n /\ pos[k] \in 1 .. Len(seqs[own[k]]) /\ flat[k] = seqs[own[k]][pos[k]]
    BY <1>2 DEF Comes
  <2> QED
    BY <2>1
<1>4. ASSUME NEW i \in 1 .. n, NEW j \in 1 .. Len(seqs[i])
      PROVE  \E k \in 1 .. Len(flat) : flat[k] = seqs[i][j]
  <2>1. PICK k \in 1 .. Len(flat) : own[k] = i /\ pos[k] = j
    BY <1>2 DEF Comes
  <2>2. flat[k] = seqs[own[k]][pos[k]]
    BY <1>2 DEF Comes
  <2> QED
    BY <2>1, <2>2
<1> QED
  BY <1>1, <1>3, <1>4 DEF flat, n

\* Parts that are sorted, each of them for those behind it too, are flattened to
\* what is sorted.
LEMMA FlatSorted ==
  ASSUME NEW S, NEW seqs \in Seq(Seq(S)), NEW H, NEW D,
         \A i \in 1 .. Len(seqs) : Sorted(seqs[i], H, D),
         \A i, k \in 1 .. Len(seqs) : i < k =>
             \A a \in 1 .. Len(seqs[i]), b \in 1 .. Len(seqs[k]) :
                 seqs[i][a] \in H /\ seqs[k][b] \in H /\ seqs[k][b] \in D => seqs[i][a] \in D
  PROVE  Sorted(FlattenSeq(seqs), H, D)
<1> DEFINE flat == FlattenSeq(seqs)  n == Len(seqs)
<1>1. flat \in Seq(S) /\ \E own, pos : Comes(flat, seqs, n, own, pos)
  BY FlattenIndex
<1>2. PICK own, pos : Comes(flat, seqs, n, own, pos)
  BY <1>1
<1> HIDE DEF flat, n
<1>3. ASSUME NEW j \in 1 .. Len(flat), NEW k \in 1 .. Len(flat), j < k,
             flat[j] \in H, flat[k] \in H, flat[k] \in D
      PROVE  flat[j] \in D
  <2> DEFINE a == own[j]  b == own[k]  x == pos[j]  y == pos[k]
  <2>1. /\ a \in 1 .. n /\ b \in 1 .. n /\ x \in 1 .. Len(seqs[a]) /\ y \in 1 .. Len(seqs[b])
        /\ flat[j] = seqs[a][x] /\ flat[k] = seqs[b][y]
        /\ a < b \/ (a = b /\ x < y)
    BY <1>2, <1>3 DEF Comes
  <2> HIDE DEF a, b, x, y
  <2>2. CASE a < b
    BY <1>3, <2>1, <2>2 DEF n
  <2>3. CASE a = b /\ x < y
    <3>1. Sorted(seqs[a], H, D)
      BY <2>1 DEF n
    <3> QED
      BY <1>3, <2>1, <2>3, <3>1 DEF Sorted
  <2> QED
    BY <2>1, <2>2, <2>3
<1> QED
  BY <1>3 DEF Sorted, flat

-----------------------------------------------------------------------------
(* What a rule of firewalld's is about. *)

View(r) ==
  [act |-> r.action, iif |-> r.iif, proto |-> r.proto, icmp |-> r.icmp,
   src |-> [net |-> r.src.net, set |-> r.src.set], sports |-> r.src.ports,
   dst |-> [net |-> r.dst.net, set |-> r.dst.set], dports |-> r.dst.ports]

\* Rules that are in force.
Live(r) == ~r.disabled /\ ~r.expired /\ r.oif = AnyIface /\ r.dir = "in"

\* The view of a rule one field of which is changed, field by field.
LEMMA RProtoView ==
  ASSUME NEW N, NEW r \in InRules(N), NEW x
  PROVE  View(RProto(r, x)) = [View(r) EXCEPT !.proto = x] /\ (Live(r) => Live(RProto(r, x)))
<1>1. r \in Listed
  BY DEF InRules, Naming
<1> DEFINE q == [r EXCEPT !.proto = x]
<1>2. /\ q.action = r.action /\ q.iif = r.iif /\ q.proto = x
      /\ q.icmp = r.icmp /\ q.src = r.src /\ q.dst = r.dst
      /\ q.disabled = r.disabled /\ q.expired = r.expired /\ q.oif = r.oif /\ q.dir = r.dir
  BY <1>1 DEF Listed
<1> HIDE DEF q
<1>3. View(q) = [View(r) EXCEPT !.proto = x] /\ (Live(r) => Live(q))
  BY <1>2 DEF View, Live
<1> QED
  BY <1>3 DEF RProto, q

LEMMA RIifView ==
  ASSUME NEW N, NEW r \in InRules(N), NEW x
  PROVE  View(RIif(r, x)) = [View(r) EXCEPT !.iif = x] /\ (Live(r) => Live(RIif(r, x)))
<1>1. r \in Listed
  BY DEF InRules, Naming
<1> DEFINE q == [r EXCEPT !.iif = x]
<1>2. /\ q.action = r.action /\ q.iif = x /\ q.proto = r.proto
      /\ q.icmp = r.icmp /\ q.src = r.src /\ q.dst = r.dst
      /\ q.disabled = r.disabled /\ q.expired = r.expired /\ q.oif = r.oif /\ q.dir = r.dir
  BY <1>1 DEF Listed
<1> HIDE DEF q
<1>3. View(q) = [View(r) EXCEPT !.iif = x] /\ (Live(r) => Live(q))
  BY <1>2 DEF View, Live
<1> QED
  BY <1>3 DEF RIif, q

LEMMA RIcmpView ==
  ASSUME NEW N, NEW r \in InRules(N), NEW x
  PROVE  View(RIcmp(r, x)) = [View(r) EXCEPT !.icmp = x] /\ (Live(r) => Live(RIcmp(r, x)))
<1>1. r \in Listed
  BY DEF InRules, Naming
<1> DEFINE q == [r EXCEPT !.icmp = x]
<1>2. /\ q.action = r.action /\ q.iif = r.iif /\ q.proto = r.proto
      /\ q.icmp = x /\ q.src = r.src /\ q.dst = r.dst
      /\ q.disabled = r.disabled /\ q.expired = r.expired /\ q.oif = r.oif /\ q.dir = r.dir
  BY <1>1 DEF Listed
<1> HIDE DEF q
<1>3. View(q) = [View(r) EXCEPT !.icmp = x] /\ (Live(r) => Live(q))
  BY <1>2 DEF View, Live
<1> QED
  BY <1>3 DEF RIcmp, q

LEMMA RLogView ==
  ASSUME NEW N, NEW r \in InRules(N), NEW x
  PROVE  View(RLog(r, x)) = View(r) /\ (Live(r) => Live(RLog(r, x)))
<1>1. r \in Listed
  BY DEF InRules, Naming
<1> DEFINE q == [r EXCEPT !.log = x]
<1>2. /\ q.action = r.action /\ q.iif = r.iif /\ q.proto = r.proto
      /\ q.icmp = r.icmp /\ q.src = r.src /\ q.dst = r.dst
      /\ q.disabled = r.disabled /\ q.expired = r.expired /\ q.oif = r.oif /\ q.dir = r.dir
  BY <1>1 DEF Listed
<1> HIDE DEF q
<1>3. View(q) = View(r) /\ (Live(r) => Live(q))
  BY <1>2 DEF View, Live
<1> QED
  BY <1>3 DEF RLog, q

LEMMA RSrcPortsView ==
  ASSUME NEW N, NEW r \in InRules(N), NEW x
  PROVE  View(RSrcPorts(r, x)) = [View(r) EXCEPT !.sports = x] /\ (Live(r) => Live(RSrcPorts(r, x)))
<1> DEFINE e == [r.src EXCEPT !.ports = x]
<1>1. r \in Listed /\ r.src \in Ends
  BY DEF InRules, Naming, Listed
<1>2. e.net = r.src.net /\ e.set = r.src.set /\ e.ports = x
  BY <1>1 DEF Ends
<1>3. RSrcPorts(r, x) = [r EXCEPT !.src = e]
  BY DEF RSrcPorts
<1> HIDE DEF e
<1> DEFINE q == [r EXCEPT !.src = e]
<1>4. /\ q.action = r.action /\ q.iif = r.iif /\ q.proto = r.proto /\ q.icmp = r.icmp
      /\ q.src = e /\ q.dst = r.dst
      /\ q.disabled = r.disabled /\ q.expired = r.expired /\ q.oif = r.oif /\ q.dir = r.dir
  BY <1>1 DEF Listed
<1> HIDE DEF q
<1>5. View(q) = [View(r) EXCEPT !.sports = x] /\ (Live(r) => Live(q))
  BY <1>2, <1>4 DEF View, Live
<1> QED
  BY <1>3, <1>5 DEF q

LEMMA RDstPortsView ==
  ASSUME NEW N, NEW r \in InRules(N), NEW x
  PROVE  View(RDstPorts(r, x)) = [View(r) EXCEPT !.dports = x] /\ (Live(r) => Live(RDstPorts(r, x)))
<1> DEFINE e == [r.dst EXCEPT !.ports = x]
<1>1. r \in Listed /\ r.dst \in Ends
  BY DEF InRules, Naming, Listed
<1>2. e.net = r.dst.net /\ e.set = r.dst.set /\ e.ports = x
  BY <1>1 DEF Ends
<1>3. RDstPorts(r, x) = [r EXCEPT !.dst = e]
  BY DEF RDstPorts
<1> HIDE DEF e
<1> DEFINE q == [r EXCEPT !.dst = e]
<1>4. /\ q.action = r.action /\ q.iif = r.iif /\ q.proto = r.proto /\ q.icmp = r.icmp
      /\ q.dst = e /\ q.src = r.src
      /\ q.disabled = r.disabled /\ q.expired = r.expired /\ q.oif = r.oif /\ q.dir = r.dir
  BY <1>1 DEF Listed
<1> HIDE DEF q
<1>5. View(q) = [View(r) EXCEPT !.dports = x] /\ (Live(r) => Live(q))
  BY <1>2, <1>4 DEF View, Live
<1> QED
  BY <1>3, <1>5 DEF q

LEMMA RSrcNetView ==
  ASSUME NEW N, NEW r \in InRules(N), NEW x
  PROVE  View(RSrcNet(r, x)) = [View(r) EXCEPT !.src = [View(r).src EXCEPT !.net = x]] /\ (Live(r) => Live(RSrcNet(r, x)))
<1> DEFINE e == [r.src EXCEPT !.net = x]
<1>1. r \in Listed /\ r.src \in Ends
  BY DEF InRules, Naming, Listed
<1>2. e.net = x /\ e.set = r.src.set /\ e.ports = r.src.ports
  BY <1>1 DEF Ends
<1>3. RSrcNet(r, x) = [r EXCEPT !.src = e]
  BY DEF RSrcNet
<1> HIDE DEF e
<1> DEFINE q == [r EXCEPT !.src = e]
<1>4. /\ q.action = r.action /\ q.iif = r.iif /\ q.proto = r.proto /\ q.icmp = r.icmp
      /\ q.src = e /\ q.dst = r.dst
      /\ q.disabled = r.disabled /\ q.expired = r.expired /\ q.oif = r.oif /\ q.dir = r.dir
  BY <1>1 DEF Listed
<1> HIDE DEF q
<1>5. View(q) = [View(r) EXCEPT !.src = [View(r).src EXCEPT !.net = x]] /\ (Live(r) => Live(q))
  BY <1>2, <1>4 DEF View, Live
<1> QED
  BY <1>3, <1>5 DEF q

LEMMA RSrcSetView ==
  ASSUME NEW N, NEW r \in InRules(N), NEW x
  PROVE  View(RSrcSet(r, x)) = [View(r) EXCEPT !.src = [View(r).src EXCEPT !.set = x]] /\ (Live(r) => Live(RSrcSet(r, x)))
<1> DEFINE e == [r.src EXCEPT !.set = x]
<1>1. r \in Listed /\ r.src \in Ends
  BY DEF InRules, Naming, Listed
<1>2. e.set = x /\ e.net = r.src.net /\ e.ports = r.src.ports
  BY <1>1 DEF Ends
<1>3. RSrcSet(r, x) = [r EXCEPT !.src = e]
  BY DEF RSrcSet
<1> HIDE DEF e
<1> DEFINE q == [r EXCEPT !.src = e]
<1>4. /\ q.action = r.action /\ q.iif = r.iif /\ q.proto = r.proto /\ q.icmp = r.icmp
      /\ q.src = e /\ q.dst = r.dst
      /\ q.disabled = r.disabled /\ q.expired = r.expired /\ q.oif = r.oif /\ q.dir = r.dir
  BY <1>1 DEF Listed
<1> HIDE DEF q
<1>5. View(q) = [View(r) EXCEPT !.src = [View(r).src EXCEPT !.set = x]] /\ (Live(r) => Live(q))
  BY <1>2, <1>4 DEF View, Live
<1> QED
  BY <1>3, <1>5 DEF q

LEMMA RDstNetView ==
  ASSUME NEW N, NEW r \in InRules(N), NEW x
  PROVE  View(RDstNet(r, x)) = [View(r) EXCEPT !.dst = [View(r).dst EXCEPT !.net = x]] /\ (Live(r) => Live(RDstNet(r, x)))
<1> DEFINE e == [r.dst EXCEPT !.net = x]
<1>1. r \in Listed /\ r.dst \in Ends
  BY DEF InRules, Naming, Listed
<1>2. e.net = x /\ e.set = r.dst.set /\ e.ports = r.dst.ports
  BY <1>1 DEF Ends
<1>3. RDstNet(r, x) = [r EXCEPT !.dst = e]
  BY DEF RDstNet
<1> HIDE DEF e
<1> DEFINE q == [r EXCEPT !.dst = e]
<1>4. /\ q.action = r.action /\ q.iif = r.iif /\ q.proto = r.proto /\ q.icmp = r.icmp
      /\ q.dst = e /\ q.src = r.src
      /\ q.disabled = r.disabled /\ q.expired = r.expired /\ q.oif = r.oif /\ q.dir = r.dir
  BY <1>1 DEF Listed
<1> HIDE DEF q
<1>5. View(q) = [View(r) EXCEPT !.dst = [View(r).dst EXCEPT !.net = x]] /\ (Live(r) => Live(q))
  BY <1>2, <1>4 DEF View, Live
<1> QED
  BY <1>3, <1>5 DEF q

LEMMA RDstSetView ==
  ASSUME NEW N, NEW r \in InRules(N), NEW x
  PROVE  View(RDstSet(r, x)) = [View(r) EXCEPT !.dst = [View(r).dst EXCEPT !.set = x]] /\ (Live(r) => Live(RDstSet(r, x)))
<1> DEFINE e == [r.dst EXCEPT !.set = x]
<1>1. r \in Listed /\ r.dst \in Ends
  BY DEF InRules, Naming, Listed
<1>2. e.set = x /\ e.net = r.dst.net /\ e.ports = r.dst.ports
  BY <1>1 DEF Ends
<1>3. RDstSet(r, x) = [r EXCEPT !.dst = e]
  BY DEF RDstSet
<1> HIDE DEF e
<1> DEFINE q == [r EXCEPT !.dst = e]
<1>4. /\ q.action = r.action /\ q.iif = r.iif /\ q.proto = r.proto /\ q.icmp = r.icmp
      /\ q.dst = e /\ q.src = r.src
      /\ q.disabled = r.disabled /\ q.expired = r.expired /\ q.oif = r.oif /\ q.dir = r.dir
  BY <1>1 DEF Listed
<1> HIDE DEF q
<1>5. View(q) = [View(r) EXCEPT !.dst = [View(r).dst EXCEPT !.set = x]] /\ (Live(r) => Live(q))
  BY <1>2, <1>4 DEF View, Live
<1> QED
  BY <1>3, <1>5 DEF q

-----------------------------------------------------------------------------
(* What a template of firewalld's is about. *)

\* The same of the rule of a template, whose families stay.
LEMMA TProtoView ==
  ASSUME NEW N, NEW t \in Ts(N), NEW x
  PROVE  /\ View(TProto(t, x).rule) = [View(t.rule) EXCEPT !.proto = x]
         /\ TProto(t, x).families = t.families
         /\ Live(t.rule) => Live(TProto(t, x).rule)
<1>1. t.rule \in InRules(N) /\ TProto(t, x).rule = RProto(t.rule, x) /\ TProto(t, x).families = t.families
  BY DEF Ts, TProto, RProto
<1> QED
  BY <1>1, RProtoView

LEMMA TIcmpView ==
  ASSUME NEW N, NEW t \in Ts(N), NEW x
  PROVE  /\ View(TIcmp(t, x).rule) = [View(t.rule) EXCEPT !.icmp = x]
         /\ TIcmp(t, x).families = t.families
         /\ Live(t.rule) => Live(TIcmp(t, x).rule)
<1>1. t.rule \in InRules(N) /\ TIcmp(t, x).rule = RIcmp(t.rule, x) /\ TIcmp(t, x).families = t.families
  BY DEF Ts, TIcmp, RIcmp
<1> QED
  BY <1>1, RIcmpView

LEMMA TLogView ==
  ASSUME NEW N, NEW t \in Ts(N), NEW x
  PROVE  /\ View(TLog(t, x).rule) = View(t.rule)
         /\ TLog(t, x).families = t.families
         /\ Live(t.rule) => Live(TLog(t, x).rule)
<1>1. t.rule \in InRules(N) /\ TLog(t, x).rule = RLog(t.rule, x) /\ TLog(t, x).families = t.families
  BY DEF Ts, TLog, RLog
<1> QED
  BY <1>1, RLogView

LEMMA TSrcPortsView ==
  ASSUME NEW N, NEW t \in Ts(N), NEW x
  PROVE  /\ View(TSrcPorts(t, x).rule) = [View(t.rule) EXCEPT !.sports = x]
         /\ TSrcPorts(t, x).families = t.families
         /\ Live(t.rule) => Live(TSrcPorts(t, x).rule)
<1>1. t.rule \in InRules(N) /\ TSrcPorts(t, x).rule = RSrcPorts(t.rule, x) /\ TSrcPorts(t, x).families = t.families
  BY DEF Ts, TSrcPorts, RSrcPorts
<1> QED
  BY <1>1, RSrcPortsView

LEMMA TDstPortsView ==
  ASSUME NEW N, NEW t \in Ts(N), NEW x
  PROVE  /\ View(TDstPorts(t, x).rule) = [View(t.rule) EXCEPT !.dports = x]
         /\ TDstPorts(t, x).families = t.families
         /\ Live(t.rule) => Live(TDstPorts(t, x).rule)
<1>1. t.rule \in InRules(N) /\ TDstPorts(t, x).rule = RDstPorts(t.rule, x) /\ TDstPorts(t, x).families = t.families
  BY DEF Ts, TDstPorts, RDstPorts
<1> QED
  BY <1>1, RDstPortsView

LEMMA TSrcNetView ==
  ASSUME NEW N, NEW t \in Ts(N), NEW x
  PROVE  /\ View(TSrcNet(t, x).rule) = [View(t.rule) EXCEPT !.src = [View(t.rule).src EXCEPT !.net = x]]
         /\ TSrcNet(t, x).families = t.families
         /\ Live(t.rule) => Live(TSrcNet(t, x).rule)
<1>1. t.rule \in InRules(N) /\ TSrcNet(t, x).rule = RSrcNet(t.rule, x) /\ TSrcNet(t, x).families = t.families
  BY DEF Ts, TSrcNet, RSrcNet
<1> QED
  BY <1>1, RSrcNetView

LEMMA TSrcSetView ==
  ASSUME NEW N, NEW t \in Ts(N), NEW x
  PROVE  /\ View(TSrcSet(t, x).rule) = [View(t.rule) EXCEPT !.src = [View(t.rule).src EXCEPT !.set = x]]
         /\ TSrcSet(t, x).families = t.families
         /\ Live(t.rule) => Live(TSrcSet(t, x).rule)
<1>1. t.rule \in InRules(N) /\ TSrcSet(t, x).rule = RSrcSet(t.rule, x) /\ TSrcSet(t, x).families = t.families
  BY DEF Ts, TSrcSet, RSrcSet
<1> QED
  BY <1>1, RSrcSetView

LEMMA TDstNetView ==
  ASSUME NEW N, NEW t \in Ts(N), NEW x
  PROVE  /\ View(TDstNet(t, x).rule) = [View(t.rule) EXCEPT !.dst = [View(t.rule).dst EXCEPT !.net = x]]
         /\ TDstNet(t, x).families = t.families
         /\ Live(t.rule) => Live(TDstNet(t, x).rule)
<1>1. t.rule \in InRules(N) /\ TDstNet(t, x).rule = RDstNet(t.rule, x) /\ TDstNet(t, x).families = t.families
  BY DEF Ts, TDstNet, RDstNet
<1> QED
  BY <1>1, RDstNetView

LEMMA TDstSetView ==
  ASSUME NEW N, NEW t \in Ts(N), NEW x
  PROVE  /\ View(TDstSet(t, x).rule) = [View(t.rule) EXCEPT !.dst = [View(t.rule).dst EXCEPT !.set = x]]
         /\ TDstSet(t, x).families = t.families
         /\ Live(t.rule) => Live(TDstSet(t, x).rule)
<1>1. t.rule \in InRules(N) /\ TDstSet(t, x).rule = RDstSet(t.rule, x) /\ TDstSet(t, x).families = t.families
  BY DEF Ts, TDstSet, RDstSet
<1> QED
  BY <1>1, RDstSetView

\* Other families change nothing of the rule.
LEMMA TFamView ==
  ASSUME NEW N, NEW t \in Ts(N), NEW x
  PROVE  TFam(t, x).rule = t.rule /\ TFam(t, x).families = x
BY DEF Ts, TFam

\* A new template is about all that comes in.
LEMMA TemplateView ==
  ASSUME NEW a, NEW F
  PROVE  /\ View(Template(a, F).rule) = [act |-> a, iif |-> AnyIface, proto |-> "any", icmp |-> AnyType,
                                        src |-> AnyEnd, sports |-> {}, dst |-> AnyEnd, dports |-> {}]
         /\ Template(a, F).families = F /\ Live(Template(a, F).rule)
<1> DEFINE r == PlainRule(a, "in")  e == Endpoint(NoNet, {}, "any")
<1>1. /\ r.action = a /\ r.iif = AnyIface /\ r.proto = "any" /\ r.icmp = AnyType /\ r.src = e /\ r.dst = e
      /\ r.disabled = FALSE /\ r.expired = FALSE /\ r.oif = AnyIface /\ r.dir = "in"
  BY DEF PlainRule
<1>2. e.net = NoNet /\ e.set = NoSet /\ e.ports = {}
  BY DEF Endpoint
<1>3. Template(a, F).rule = r /\ Template(a, F).families = F
  BY DEF Template
<1> HIDE DEF r, e
<1> QED
  BY <1>1, <1>2, <1>3 DEF View, Live, AnyEnd

\* Whether a packet is one that a rule of a view is about.
ViewHolds(fw, v, p) ==
  /\ IfaceOk(v.iif, p.iif) /\ ProtoOk(v.proto, p) /\ TypeOk(v.icmp, p)
  /\ EndHolds(fw, v.src, p.src, p.v6) /\ EndHolds(fw, v.dst, p.dst, p.v6)
  /\ InPorts(v.sports, p.sport, p.proto) /\ InPorts(v.dports, p.dport, p.proto)
  /\ v.sports \cup v.dports # {} => p.proto \in {"tcp", "udp"}

Hit(fw, t, p) == p.v6 \in t.families /\ ViewHolds(fw, View(t.rule), p)

\* A state has firewalld's sets as they are.
SetsAre(u, fw) == \A n \in SetNames(fw) : u.sets[n] = fw.ipsets[n].entries

\* An end of a rule holds an address in the state as it does in the configuration.
LEMMA EndsAre ==
  ASSUME NEW fw, NEW u, SetsAre(u, fw), NEW a, a.set \in SetNames(fw) \cup {NoSet}, NEW addr, NEW v6
  PROVE  InEndpoint(u, a, addr, v6) <=> EndHolds(fw, [net |-> a.net, set |-> a.set], addr, v6)
<1> DEFINE e == [net |-> a.net, set |-> a.set]
<1>1. e.net = a.net /\ e.set = a.set
  OBVIOUS
<1> HIDE DEF e
<1>2. CASE a.set # NoSet
  <2>1. u.sets[a.set] = fw.ipsets[a.set].entries
    BY <1>2 DEF SetsAre
  <2> QED
    BY <1>1, <1>2, <2>1, Zenon DEF InEndpoint, EndHolds, e
<1>3. CASE a.set = NoSet
  BY <1>1, <1>3, Zenon DEF InEndpoint, EndHolds, e
<1> QED
  BY <1>2, <1>3

\* Which packets a rule matches is told by its view.
LEMMA ViewMatches ==
  ASSUME NEW fw, NEW u, SetsAre(u, fw), NEW r \in InRules(SetNames(fw)), Live(r), NEW p, p.dir = "in"
  PROVE  Matches(u, r, p.v6, p) <=> ViewHolds(fw, View(r), p)
<1> DEFINE v == View(r)
<1>1. r.src.set \in SetNames(fw) \cup {NoSet} /\ r.dst.set \in SetNames(fw) \cup {NoSet}
  BY DEF InRules, Naming
<1>2. /\ v.iif = r.iif /\ v.proto = r.proto /\ v.icmp = r.icmp /\ v.sports = r.src.ports /\ v.dports = r.dst.ports
      /\ v.src = [net |-> r.src.net, set |-> r.src.set] /\ v.dst = [net |-> r.dst.net, set |-> r.dst.set]
  BY DEF View
<1> HIDE DEF v
<1>3. InEndpoint(u, r.src, p.src, p.v6) <=> EndHolds(fw, v.src, p.src, p.v6)
  <2> DEFINE a == r.src
  <2> HIDE DEF a
  <2>1. a.set \in SetNames(fw) \cup {NoSet}
    BY <1>1 DEF a
  <2>2. InEndpoint(u, a, p.src, p.v6) <=> EndHolds(fw, [net |-> a.net, set |-> a.set], p.src, p.v6)
    BY <2>1, EndsAre
  <2> QED
    BY <1>2, <2>2 DEF a
<1>4. InEndpoint(u, r.dst, p.dst, p.v6) <=> EndHolds(fw, v.dst, p.dst, p.v6)
  <2> DEFINE a == r.dst
  <2> HIDE DEF a
  <2>1. a.set \in SetNames(fw) \cup {NoSet}
    BY <1>1 DEF a
  <2>2. InEndpoint(u, a, p.dst, p.v6) <=> EndHolds(fw, [net |-> a.net, set |-> a.set], p.dst, p.v6)
    BY <2>1, EndsAre
  <2> QED
    BY <1>2, <2>2 DEF a
<1>5. ~r.disabled /\ ~r.expired /\ r.oif = AnyIface /\ r.dir = "in"
  BY DEF Live
<1> QED
  BY <1>2, <1>3, <1>4, <1>5, Zenon DEF Matches, ViewHolds, IfaceOk, ProtoOk, TypeOk, v

-----------------------------------------------------------------------------
(* Sources of bindings and of templates.                                   *)

\* What one network covers of another one, and two that have an address in common.
LEMMA Covers ==
  ASSUME NEW a \in Nets, NEW b \in Nets
  PROVE  /\ PrefixContains(a, b) => a.v6 = b.v6 /\ Block(a) \subseteq Block(b)
         /\ a.v6 = b.v6 /\ Block(a) \cap Block(b) # {} => Nested(a, b)
<1>1. /\ a.lo \in Int /\ b.lo \in Int /\ a.size \in Int /\ b.size \in Int
      /\ a.size >= 1 /\ b.size >= 1
  BY NetsAssumption DEF NetsAssumption
<1>2. a.v6 = b.v6 =>
        Block(a) \subseteq Block(b) \/ Block(b) \subseteq Block(a) \/ Block(a) \cap Block(b) = {}
  BY BlocksNest DEF BlocksNest
<1>3. a.lo \in Block(a) /\ b.lo \in Block(b)
  BY <1>1 DEF Block
<1>4. ASSUME NEW c \in Nets, NEW d \in Nets, Block(c) \subseteq Block(d), c.v6 = d.v6,
             c.lo \in Int, d.lo \in Int, c.size \in Int, d.size \in Int, c.size >= 1
      PROVE  PrefixContains(c, d)
  <2>1. c.lo \in Block(c) /\ c.lo + c.size - 1 \in Block(c)
    BY <1>4 DEF Block
  <2>2. c.lo \in Block(d) /\ c.lo + c.size - 1 \in Block(d)
    BY <1>4, <2>1
  <2>3. c.size <= d.size
    BY <1>4, <2>2 DEF Block
  <2> QED
    BY <1>4, <2>2, <2>3 DEF PrefixContains
<1>5. ASSUME PrefixContains(a, b) PROVE a.v6 = b.v6 /\ Block(a) \subseteq Block(b)
  <2>1. a.v6 = b.v6 /\ a.lo \in Block(b) /\ a.size <= b.size
    BY <1>5 DEF PrefixContains
  <2>2. CASE Block(b) \subseteq Block(a)
    <3>1. b.lo \in Block(a)
      BY <1>3, <2>2
    <3> QED
      BY <1>1, <2>1, <3>1 DEF Block
  <2> QED
    BY <1>2, <1>3, <2>1, <2>2
<1>6. ASSUME a.v6 = b.v6, Block(a) \cap Block(b) # {} PROVE Nested(a, b)
  BY <1>1, <1>2, <1>4, <1>6 DEF Nested
<1> QED
  BY <1>5, <1>6

\* Whose address is of an end, and what families it has.
LEMMA EndOfNet ==
  ASSUME NEW fw, NEW e, e.set = NoSet, e.net # NoNet, NEW addr, NEW v6
  PROVE  /\ EndHolds(fw, e, addr, v6) <=> e.net.v6 = v6 /\ addr \in Block(e.net)
         /\ EndFamilies(fw, e) = {e.net.v6}
<1>1. EndHolds(fw, e, addr, v6) <=> e.net.v6 = v6 /\ addr \in Block(e.net)
  BY Zenon DEF EndHolds
<1>2. EndFamilies(fw, e) = {e.net.v6}
  BY DEF EndFamilies
<1> QED
  BY <1>1, <1>2

\* The end that is not given is about every address.
LEMMA EndOfAll ==
  ASSUME NEW fw, NEW e, e.set = NoSet, e.net = NoNet, NEW addr, NEW v6
  PROVE  EndHolds(fw, e, addr, v6) /\ EndFamilies(fw, e) = Both
BY DEF EndHolds, EndFamilies

\* A set is of one family.
LEMMA EndOfSet ==
  ASSUME NEW fw, NEW e, e.set # NoSet, EndFits(fw, e), NEW addr, NEW v6
  PROVE  /\ EndHolds(fw, e, addr, v6) => fw.ipsets[e.set].v6 = v6
         /\ EndFamilies(fw, e) = {fw.ipsets[e.set].v6}
<1>1. e.set \in SetNames(fw)
  BY DEF EndFits, SetNames
<1>2. SetFits(fw.ipsets[e.set])
  BY <1>1 DEF SetNames, FwSets
<1>3. EndHolds(fw, e, addr, v6) => fw.ipsets[e.set].v6 = v6
  <2> SUFFICES ASSUME EndHolds(fw, e, addr, v6) PROVE fw.ipsets[e.set].v6 = v6
    OBVIOUS
  <2>1. PICK n \in fw.ipsets[e.set].entries : n.v6 = v6
    BY Zenon DEF EndHolds
  <2>2. n.v6 = fw.ipsets[e.set].v6
    BY <1>2 DEF SetFits
  <2> QED
    BY <2>1, <2>2
<1> QED
  BY <1>3 DEF EndFamilies

\* An address of an end is of one of its families.
LEMMA EndInFamily ==
  ASSUME NEW fw, NEW e \in FwEnds, EndFits(fw, e), NEW addr, NEW v6 \in Both, EndHolds(fw, e, addr, v6)
  PROVE  v6 \in EndFamilies(fw, e)
<1>1. CASE e.set # NoSet
  BY <1>1, EndOfSet
<1>2. CASE e.set = NoSet /\ e.net # NoNet
  BY <1>2, EndOfNet
<1>3. CASE e.set = NoSet /\ e.net = NoNet
  BY <1>3, EndOfAll
<1> QED
  BY <1>1, <1>2, <1>3

\* Two ends that are apart have no address in common.
LEMMA ApartEnds ==
  ASSUME NEW fw, NEW b \in FwEnds, NEW e \in FwEnds, Apart(b, e), NEW addr, NEW v6
  PROVE  ~(EndHolds(fw, b, addr, v6) /\ EndHolds(fw, e, addr, v6))
<1>1. b.net \in Nets /\ e.net \in Nets /\ b.net # NoNet /\ e.net # NoNet /\ b.set = NoSet /\ e.set = NoSet
  BY DEF Apart, FwEnds
<1>2. /\ EndHolds(fw, b, addr, v6) <=> b.net.v6 = v6 /\ addr \in Block(b.net)
      /\ EndHolds(fw, e, addr, v6) <=> e.net.v6 = v6 /\ addr \in Block(e.net)
  BY <1>1, EndOfNet
<1>3. b.net.v6 = e.net.v6 /\ Block(b.net) \cap Block(e.net) # {} => Nested(b.net, e.net)
  BY <1>1, Covers
<1>4. ~Nested(b.net, e.net)
  BY DEF Apart
<1> QED
  BY <1>2, <1>3, <1>4

\* What a binding and a template have in common.
LEMMA MeetHolds ==
  ASSUME NEW fw, NEW b \in FwEnds, EndFits(fw, b), NEW e \in FwEnds, ~Apart(b, e), ~Clash(b, e),
         NEW addr, NEW v6 \in Both
  PROVE  v6 \in EndFamilies(fw, b) /\ EndHolds(fw, Meet(b, e), addr, v6)
         <=> EndHolds(fw, b, addr, v6) /\ EndHolds(fw, e, addr, v6)
<1> DEFINE H(x) == EndHolds(fw, x, addr, v6)
<1>0. /\ H(b) => v6 \in EndFamilies(fw, b)
      /\ b = [net |-> b.net, set |-> b.set] /\ e = [net |-> e.net, set |-> e.set]
      /\ b.net \in Nets \cup {NoNet} /\ e.net \in Nets \cup {NoNet}
      /\ b.net = NoNet \/ b.set = NoSet
      /\ e.net = NoNet \/ e.set = NoSet
  BY EndInFamily DEF FwEnds
<1>1. CASE b = AnyEnd
  <2>1. Meet(b, e) = e /\ b.set = NoSet /\ b.net = NoNet
    BY <1>1 DEF Meet, AnyEnd
  <2>2. H(b) /\ EndFamilies(fw, b) = Both
    BY <2>1, EndOfAll
  <2> QED
    BY <2>1, <2>2
<1>2. CASE b.net # NoNet
  <2>1. b.set = NoSet /\ b.net \in Nets /\ b # AnyEnd
    BY <1>2 DEF FwEnds, AnyEnd
  <2>2. e.set = NoSet
    BY <1>2 DEF Clash
  <2>3. /\ H(b) <=> b.net.v6 = v6 /\ addr \in Block(b.net)
        /\ EndFamilies(fw, b) = {b.net.v6}
    BY <1>2, <2>1, EndOfNet
  <2>4. CASE e.net = NoNet
    <3>1. H(e)
      BY <2>2, <2>4, EndOfAll
    <3>2. Meet(b, e) = b
      BY <2>1, <2>4 DEF Meet
    <3> QED
      BY <1>0, <3>1, <3>2
  <2>5. CASE e.net # NoNet
    <3>1. e.net \in Nets
      BY <1>0, <2>5
    <3>2. H(e) <=> e.net.v6 = v6 /\ addr \in Block(e.net)
      BY <2>2, <2>5, EndOfNet
    <3>3. CASE PrefixContains(e.net, b.net)
      <4>1. Meet(b, e) = e
        BY <1>2, <2>1, <2>5, <3>3 DEF Meet
      <4>2. e.net.v6 = b.net.v6 /\ Block(e.net) \subseteq Block(b.net)
        BY <2>1, <3>1, <3>3, Covers
      <4> QED
        BY <2>3, <3>2, <4>1, <4>2
    <3>4. CASE ~PrefixContains(e.net, b.net)
      <4>1. Meet(b, e) = b
        BY <2>1, <3>4 DEF Meet
      <4>2. Nested(b.net, e.net)
        BY <1>2, <2>5 DEF Apart
      <4>3. PrefixContains(b.net, e.net)
        BY <3>4, <4>2 DEF Nested
      <4>4. b.net.v6 = e.net.v6 /\ Block(b.net) \subseteq Block(e.net)
        BY <2>1, <3>1, <4>3, Covers
      <4> QED
        BY <2>3, <3>2, <4>1, <4>4
    <3> QED
      BY <3>3, <3>4
  <2> QED
    BY <2>4, <2>5
<1>3. CASE b.net = NoNet /\ b # AnyEnd
  <2>1. b.set # NoSet
    BY <1>0, <1>3 DEF AnyEnd
  <2>2. e \in {AnyEnd, b} /\ Meet(b, e) = b
    BY <1>3, <2>1 DEF Clash, Meet
  <2>3. e = AnyEnd => H(e)
    <3> SUFFICES ASSUME e = AnyEnd PROVE H(e)
      OBVIOUS
    <3>1. e.set = NoSet /\ e.net = NoNet
      BY DEF AnyEnd
    <3> QED
      BY <3>1, EndOfAll
  <2> QED
    BY <1>0, <2>2, <2>3
<1> QED
  BY <1>1, <1>2, <1>3

-----------------------------------------------------------------------------
(* Templates for bindings. *)

\* A template that no binding has changed.
Ready(t) == Live(t.rule) /\ View(t.rule).iif = AnyIface /\ View(t.rule).src \in FwEnds

\* A rule's view with another interface and another source.
Moved(v, iface, e) == [v EXCEPT !.iif = iface, !.src = e]

\* The view of a rule that has been given a binding.
LEMMA MovedView ==
  ASSUME NEW N, NEW r \in InRules(N), NEW iface \in Texts, NEW e \in FwEnds, e.set \in N \cup {NoSet}
  PROVE  LET q == RSrcSet(RSrcNet(RIif(r, iface), e.net), e.set) IN
         /\ View(q) = Moved(View(r), iface, e)
         /\ Live(r) => Live(q)
<1> DEFINE a == RIif(r, iface)  b == RSrcNet(a, e.net)  c == RSrcSet(b, e.set)
<1>1. e.net \in Nets \cup {NoNet} /\ e.set \in Texts /\ e = [net |-> e.net, set |-> e.set]
  BY DEF FwEnds
<1>2. a \in InRules(N) /\ View(a) = [View(r) EXCEPT !.iif = iface] /\ (Live(r) => Live(a))
  BY RIifType, RIifView
<1> HIDE DEF a
<1>3. b \in InRules(N) /\ View(b) = [View(a) EXCEPT !.src = [View(a).src EXCEPT !.net = e.net]] /\ (Live(a) => Live(b))
  BY <1>1, <1>2, RSrcNetType, RSrcNetView
<1> HIDE DEF b
<1>4. View(c) = [View(b) EXCEPT !.src = [View(b).src EXCEPT !.set = e.set]] /\ (Live(b) => Live(c))
  BY <1>1, <1>3, RSrcSetView
<1> HIDE DEF c
<1>5. /\ View(r).src = [net |-> r.src.net, set |-> r.src.set]
      /\ View(r) = [act |-> View(r).act, iif |-> View(r).iif, proto |-> View(r).proto, icmp |-> View(r).icmp,
                    src |-> View(r).src, sports |-> View(r).sports, dst |-> View(r).dst, dports |-> View(r).dports]
  BY DEF View
<1> DEFINE v == View(r)  x == r.src.net  y == r.src.set
<1> HIDE DEF v
<1>6. View(c) = Moved(v, iface, e)
  <2>1. v.src = [net |-> x, set |-> y]
    BY <1>5 DEF v
  <2> HIDE DEF x, y
  <2>2. View(a).src = v.src
    BY <1>2, <1>5 DEF v
  <2>3. View(b).src = [net |-> e.net, set |-> y]
    BY <1>2, <1>3, <1>5, <2>1 DEF v
  <2>4. View(c) = [View(b) EXCEPT !.src = e]
    <3>1. [View(b).src EXCEPT !.set = e.set] = [net |-> e.net, set |-> e.set]
      BY <2>3
    <3> QED
      BY <1>1, <1>4, <3>1
  <2> QED
    BY <1>2, <1>3, <1>5, <2>4 DEF v, Moved
<1> QED
  BY <1>2, <1>3, <1>4, <1>6 DEF a, b, c, v

\* Which packets the rule is about that a template gives for a binding.
LEMMA MovedHolds ==
  ASSUME NEW fw, NEW v, v = [act |-> v.act, iif |-> v.iif, proto |-> v.proto, icmp |-> v.icmp,
                             src |-> v.src, sports |-> v.sports, dst |-> v.dst, dports |-> v.dports],
         v.iif = AnyIface, NEW iface, NEW e, NEW p
  PROVE  /\ Moved(v, iface, e).act = v.act
         /\ ViewHolds(fw, Moved(v, iface, e), p) /\ EndHolds(fw, v.src, p.src, p.v6)
            <=> /\ ViewHolds(fw, v, p) /\ IfaceOk(iface, p.iif) /\ EndHolds(fw, e, p.src, p.v6)
<1> DEFINE w == Moved(v, iface, e)
<1>1. /\ w.act = v.act /\ w.iif = iface /\ w.proto = v.proto /\ w.icmp = v.icmp /\ w.src = e
      /\ w.sports = v.sports /\ w.dst = v.dst /\ w.dports = v.dports
  BY DEF Moved
<1> HIDE DEF w
<1>2. IfaceOk(v.iif, p.iif)
  BY DEF IfaceOk
<1>3. ViewHolds(fw, w, p) /\ EndHolds(fw, v.src, p.src, p.v6)
      <=> ViewHolds(fw, v, p) /\ IfaceOk(iface, p.iif) /\ EndHolds(fw, e, p.src, p.v6)
  BY <1>1, <1>2, Zenon DEF ViewHolds
<1> QED
  BY <1>1, <1>3 DEF w

\* What a template gives for one binding (emit).
LEMMA EmitForHits ==
  ASSUME NEW fw, NEW b \in FwBindings, EndFits(fw, b.src), NEW t \in Ts(SetNames(fw)), Ready(t), Emits(fw, b, t),
         NEW p, p.v6 \in Both
  PROVE  LET l == EmitFor(fw, b, t) IN
         /\ \A k \in 1 .. Len(l) : /\ Live(l[k].rule) /\ View(l[k].rule).act = View(t.rule).act
                                   /\ Hit(fw, l[k], p) => BoundBy(fw, b, p) /\ Hit(fw, t, p)
         /\ BoundBy(fw, b, p) /\ Hit(fw, t, p) => \E k \in 1 .. Len(l) : Hit(fw, l[k], p)
<1> DEFINE N == SetNames(fw)
           own == SrcOf(t)
           v == View(t.rule)
           src == Meet(b.src, own)
           r == RSrcSet(RSrcNet(RIif(t.rule, b.iface), src.net), src.set)
           families == t.families \cap EndFamilies(fw, b.src)
           x == [rule |-> r, families |-> families]
           l == EmitFor(fw, b, t)
           B(e) == EndHolds(fw, e, p.src, p.v6)
<1>1. t.rule \in InRules(N) /\ t.families \in SUBSET Both
  BY TsParts
<1>2. b.iface \in Texts /\ b.src \in FwEnds /\ b.src.set \in N \cup {NoSet}
  BY EndParts DEF FwBindings
<1>3. own = v.src /\ own \in FwEnds /\ own.set \in N \cup {NoSet} /\ v.iif = AnyIface /\ Live(t.rule)
  <2>1. own = v.src
    BY DEF SrcOf, View
  <2>2. own.set = t.rule.src.set
    BY DEF SrcOf
  <2>3. t.rule.src.set \in N \cup {NoSet}
    BY <1>1 DEF InRules, Naming
  <2> QED
    BY <2>1, <2>2, <2>3 DEF Ready
<1>4. src \in FwEnds /\ src.set \in N \cup {NoSet}
  <2>1. src \in {b.src, own}
    BY DEF Meet
  <2> QED
    BY <1>2, <1>3, <2>1
<1>5. l = IF Apart(b.src, own) THEN <<>> ELSE <<x>>
  BY DEF EmitFor, RSrcSet, RSrcNet, RIif
<1>6. BoundBy(fw, b, p) <=> IfaceOk(b.iface, p.iif) /\ B(b.src)
  BY DEF BoundBy, IfaceOk
<1>7. Hit(fw, t, p) <=> p.v6 \in t.families /\ ViewHolds(fw, v, p)
  BY DEF Hit
<1>8. v = [act |-> v.act, iif |-> v.iif, proto |-> v.proto, icmp |-> v.icmp,
           src |-> v.src, sports |-> v.sports, dst |-> v.dst, dports |-> v.dports]
  BY DEF View
<1>9. ViewHolds(fw, v, p) => B(v.src)
  BY DEF ViewHolds
<1>10. View(r) = Moved(v, b.iface, src) /\ Live(r)
  <2> HIDE DEF N, v, src
  <2>1. /\ View(r) = Moved(View(t.rule), b.iface, src)
        /\ Live(t.rule) => Live(r)
    BY <1>1, <1>2, <1>4, MovedView
  <2> QED
    BY <1>3, <2>1 DEF v
<1>11. x.rule = r /\ x.families = families
  OBVIOUS
<1> HIDE DEF v, own, src, r, l, N, x, families
<1>12. CASE Apart(b.src, own)
  <2>1. ~(B(b.src) /\ B(own))
    BY <1>2, <1>3, <1>12, ApartEnds
  <2>2. Len(l) = 0
    BY <1>5, <1>12
  <2> QED
    BY <1>3, <1>6, <1>7, <1>9, <2>1, <2>2 DEF l
<1>13. CASE ~Apart(b.src, own)
  <2>1. ~Clash(b.src, own)
    BY <1>13 DEF Emits, own
  <2>2. Len(l) = 1 /\ l[1] = x
    BY <1>5, <1>13
  <2>3. p.v6 \in EndFamilies(fw, b.src) /\ B(src) <=> B(b.src) /\ B(own)
    BY <1>2, <1>3, <1>13, <2>1, MeetHolds DEF src
  <2>4. /\ Moved(v, b.iface, src).act = v.act
        /\ ViewHolds(fw, Moved(v, b.iface, src), p) /\ B(v.src)
           <=> ViewHolds(fw, v, p) /\ IfaceOk(b.iface, p.iif) /\ B(src)
    BY <1>3, <1>8, MovedHolds
  <2>5. ViewHolds(fw, Moved(v, b.iface, src), p) => B(src)
    <3>1. Moved(v, b.iface, src).src = src
      BY <1>8 DEF Moved
    <3> QED
      BY <3>1 DEF ViewHolds
  <2>6. Hit(fw, x, p) <=> p.v6 \in families /\ ViewHolds(fw, Moved(v, b.iface, src), p)
    BY <1>10, <1>11 DEF Hit
  <2>7. p.v6 \in families <=> p.v6 \in t.families /\ p.v6 \in EndFamilies(fw, b.src)
    BY DEF families
  <2>8. Hit(fw, x, p) <=> BoundBy(fw, b, p) /\ Hit(fw, t, p)
    BY <1>3, <1>6, <1>7, <1>9, <2>3, <2>4, <2>5, <2>6, <2>7
  <2>9. Live(x.rule) /\ View(x.rule).act = v.act
    BY <1>10, <1>11, <2>4
  <2> QED
    BY <2>2, <2>8, <2>9 DEF l, v
<1> QED
  BY <1>12, <1>13

-----------------------------------------------------------------------------
(* The rules of a zone. *)

\* Templates that refuse.
Denying(N) == {t \in Ts(N) : View(t.rule).act # "allow"}

\* Whether one of these bindings is a packet's.
AnyBinds(fw, bs, p) == \E j \in 1 .. Len(bs) : BoundBy(fw, bs[j], p)

\* What a template gives for all bindings.
Row(fw, bs, t) == FlattenSeq([j \in DOMAIN bs |-> EmitFor(fw, bs[j], t)])

\* The same for all bindings of a zone.
LEMMA RowHits ==
  ASSUME NEW fw, NEW bs \in Seq(FwBindings), NEW t \in Ts(SetNames(fw)), Ready(t),
         \A j \in 1 .. Len(bs) : EndFits(fw, bs[j].src) /\ Emits(fw, bs[j], t),
         NEW p, p.v6 \in Both
  PROVE  LET l == Row(fw, bs, t) IN
         /\ l \in Seq(Ts(SetNames(fw)))
         /\ \A k \in 1 .. Len(l) : /\ Live(l[k].rule) /\ View(l[k].rule).act = View(t.rule).act
                                   /\ Hit(fw, l[k], p) => AnyBinds(fw, bs, p) /\ Hit(fw, t, p)
         /\ AnyBinds(fw, bs, p) /\ Hit(fw, t, p) => \E k \in 1 .. Len(l) : Hit(fw, l[k], p)
<1> DEFINE m == Len(bs)  T == Ts(SetNames(fw))
           seqs == [j \in DOMAIN bs |-> EmitFor(fw, bs[j], t)]
           l == Row(fw, bs, t)
<1>0. l = FlattenSeq(seqs)
  BY DEF Row
<1>1. m \in Nat /\ DOMAIN bs = 1 .. m /\ \A j \in 1 .. m : bs[j] \in FwBindings
  OBVIOUS
<1>2. ASSUME NEW j \in 1 .. m
      PROVE  /\ seqs[j] \in Seq(T)
             /\ \A k \in 1 .. Len(seqs[j]) :
                  /\ Live(seqs[j][k].rule) /\ View(seqs[j][k].rule).act = View(t.rule).act
                  /\ Hit(fw, seqs[j][k], p) => BoundBy(fw, bs[j], p) /\ Hit(fw, t, p)
             /\ BoundBy(fw, bs[j], p) /\ Hit(fw, t, p) => \E k \in 1 .. Len(seqs[j]) : Hit(fw, seqs[j][k], p)
  <2> DEFINE b == bs[j]  q == EmitFor(fw, b, t)
  <2>1. b \in FwBindings /\ EndFits(fw, b.src) /\ Emits(fw, b, t)
    BY <1>1
  <2>2. seqs[j] = q
    BY <1>1
  <2> HIDE DEF b, seqs
  <2>3. q \in Seq(T)
    BY <2>1, EmitForType
  <2>4. /\ \A k \in 1 .. Len(q) : /\ Live(q[k].rule) /\ View(q[k].rule).act = View(t.rule).act
                                  /\ Hit(fw, q[k], p) => BoundBy(fw, b, p) /\ Hit(fw, t, p)
        /\ BoundBy(fw, b, p) /\ Hit(fw, t, p) => \E k \in 1 .. Len(q) : Hit(fw, q[k], p)
    BY <2>1, EmitForHits
  <2> HIDE DEF q
  <2> QED
    BY <2>2, <2>3, <2>4 DEF b
<1>3. seqs = [j \in 1 .. m |-> seqs[j]]
  BY <1>1
<1> HIDE DEF seqs, l
<1>4. seqs \in Seq(Seq(T)) /\ Len(seqs) = m
  <2> HIDE DEF m, T
  <2> QED
    BY <1>1, <1>2, <1>3
<1>5. /\ l \in Seq(T)
      /\ \A k \in 1 .. Len(l) : \E j \in 1 .. m : \E h \in 1 .. Len(seqs[j]) : l[k] = seqs[j][h]
      /\ \A j \in 1 .. m : \A h \in 1 .. Len(seqs[j]) : \E k \in 1 .. Len(l) : l[k] = seqs[j][h]
  <2> DEFINE q == FlattenSeq(seqs)
  <2>1. /\ q \in Seq(T)
        /\ \A k \in 1 .. Len(q) : \E j \in 1 .. Len(seqs) : \E h \in 1 .. Len(seqs[j]) : q[k] = seqs[j][h]
        /\ \A j \in 1 .. Len(seqs) : \A h \in 1 .. Len(seqs[j]) : \E k \in 1 .. Len(q) : q[k] = seqs[j][h]
    <3> HIDE DEF T
    <3>1. seqs \in Seq(Seq(T))
      BY <1>4
    <3> QED
      BY <3>1, FlatHas
  <2> HIDE DEF T, m, q
  <2>2. l = q
    BY <1>0 DEF q
  <2> QED
    BY <1>4, <2>1, <2>2
<1> HIDE DEF T
<1>6. ASSUME NEW k \in 1 .. Len(l)
      PROVE  /\ Live(l[k].rule) /\ View(l[k].rule).act = View(t.rule).act
             /\ Hit(fw, l[k], p) => AnyBinds(fw, bs, p) /\ Hit(fw, t, p)
  <2>1. PICK j \in 1 .. m : \E h \in 1 .. Len(seqs[j]) : l[k] = seqs[j][h]
    BY <1>5
  <2>2. PICK h \in 1 .. Len(seqs[j]) : l[k] = seqs[j][h]
    BY <2>1
  <2> QED
    BY <1>2, <2>2 DEF AnyBinds
<1>7. ASSUME AnyBinds(fw, bs, p), Hit(fw, t, p) PROVE \E k \in 1 .. Len(l) : Hit(fw, l[k], p)
  <2>1. PICK j \in 1 .. m : BoundBy(fw, bs[j], p)
    BY <1>7 DEF AnyBinds
  <2>2. PICK h \in 1 .. Len(seqs[j]) : Hit(fw, seqs[j][h], p)
    BY <1>2, <1>7, <2>1
  <2>3. PICK k \in 1 .. Len(l) : l[k] = seqs[j][h]
    BY <1>5
  <2> QED
    BY <2>2, <2>3
<1> QED
  BY <1>5, <1>6, <1>7 DEF l, T

\* What a zone's templates give.
LEMMA EmitZoneHits ==
  ASSUME NEW fw, IsConfig(fw), ~FwRefused(fw), NEW z \in ActiveZones(fw), NEW p, p.v6 \in Both,
         \A i \in 1 .. Len(Templates(fw, z)) : Ready(Templates(fw, z)[i])
  PROVE  LET l == EmitZone(fw, z)
             ts == Templates(fw, z)
             N == SetNames(fw) IN
         /\ l \in Seq(Ts(N))
         /\ \A k \in 1 .. Len(l) :
              /\ Live(l[k].rule)
              /\ Hit(fw, l[k], p) => /\ AnyBinds(fw, Bindings(fw, z), p)
                                     /\ \E i \in 1 .. Len(ts) : /\ Hit(fw, ts[i], p)
                                                                /\ View(ts[i].rule).act = View(l[k].rule).act
         /\ AnyBinds(fw, Bindings(fw, z), p) =>
              \A i \in 1 .. Len(ts) : Hit(fw, ts[i], p) =>
                  \E k \in 1 .. Len(l) : Hit(fw, l[k], p) /\ View(l[k].rule).act = View(ts[i].rule).act
         /\ Sorted(ts, Ts(N), Denying(N)) => Sorted(l, Ts(N), Denying(N))
<1> DEFINE N == SetNames(fw)
           T == Ts(N)
           ts == Templates(fw, z)
           bs == Bindings(fw, z)
           n == Len(ts)
           row(i) == [j \in DOMAIN bs |-> EmitFor(fw, bs[j], ts[i])]
           seqs == [i \in DOMAIN ts |-> FlattenSeq(row(i))]
           l == EmitZone(fw, z)
           D == Denying(N)
<1>1. /\ ZoneFits(fw, z)
      /\ \A y \in DOMAIN fw.zones : ParsesZone(fw, fw.zones[y])
  BY Zenon DEF FwRefused, ZonesFit
<1>2. z \in DOMAIN fw.zones /\ fw.zones[z] \in FwZones /\ IsDir(fw.services, FwServices)
  <2>1. z \in DOMAIN fw.zones
    BY DEF ActiveZones, BoundZones
  <2>2. fw.zones[z] \in Range(fw.zones)
    BY <2>1 DEF Range
  <2> QED
    BY <2>1, <2>2 DEF IsConfig, IsDir
<1>3. ts \in Seq(T)
  BY <1>1, <1>2, TemplatesType
<1>4. bs \in Seq(FwBindings) /\ \A j \in DOMAIN bs : EndFits(fw, bs[j].src)
  BY <1>1, <1>2, BindingsType
<1>5. l = FlattenSeq(seqs)
  BY DEF EmitZone
<1>a. ASSUME NEW j \in 1 .. Len(bs), NEW i \in 1 .. n PROVE Emits(fw, bs[j], ts[i])
  <2>1. \A b \in ToSet(bs), t \in ToSet(ts) : Emits(fw, b, t)
    BY <1>1, Zenon DEF ZoneFits
  <2> HIDE DEF ts, bs
  <2>2. bs[j] \in ToSet(bs) /\ ts[i] \in ToSet(ts)
    BY <1>3, <1>4 DEF ToSet
  <2> QED
    BY <2>1, <2>2
<1>b. \A i \in 1 .. n : Ready(ts[i])
  OBVIOUS
<1> HIDE DEF ts, bs, l
<1>6. n \in Nat /\ DOMAIN ts = 1 .. n /\ \A i \in 1 .. n : ts[i] \in T
  <2> HIDE DEF T
  <2> QED
    BY <1>3
<1>7. ASSUME NEW i \in 1 .. n
      PROVE  /\ seqs[i] \in Seq(T)
             /\ \A k \in 1 .. Len(seqs[i]) :
                  /\ Live(seqs[i][k].rule) /\ View(seqs[i][k].rule).act = View(ts[i].rule).act
                  /\ Hit(fw, seqs[i][k], p) => AnyBinds(fw, bs, p) /\ Hit(fw, ts[i], p)
             /\ AnyBinds(fw, bs, p) /\ Hit(fw, ts[i], p) => \E k \in 1 .. Len(seqs[i]) : Hit(fw, seqs[i][k], p)
  <2> DEFINE t == ts[i]  q == Row(fw, bs, t)
  <2>1. seqs[i] = q
    BY <1>6 DEF Row
  <2>2. t \in Ts(SetNames(fw)) /\ Ready(t)
    BY <1>6, <1>b
  <2>3. \A j \in 1 .. Len(bs) : EndFits(fw, bs[j].src) /\ Emits(fw, bs[j], t)
    <3>1. DOMAIN bs = 1 .. Len(bs)
      BY <1>4
    <3> QED
      BY <1>4, <1>a, <3>1
  <2> HIDE DEF t
  <2>4. /\ q \in Seq(Ts(SetNames(fw)))
        /\ \A k \in 1 .. Len(q) : /\ Live(q[k].rule) /\ View(q[k].rule).act = View(t.rule).act
                                  /\ Hit(fw, q[k], p) => AnyBinds(fw, bs, p) /\ Hit(fw, t, p)
        /\ AnyBinds(fw, bs, p) /\ Hit(fw, t, p) => \E k \in 1 .. Len(q) : Hit(fw, q[k], p)
    BY <1>4, <2>2, <2>3, RowHits
  <2> HIDE DEF q, seqs
  <2> QED
    BY <2>1, <2>4 DEF t
<1>8. seqs = [i \in 1 .. n |-> seqs[i]]
  <2> HIDE DEF row
  <2> QED
    BY <1>6
<1> HIDE DEF seqs
<1>9. seqs \in Seq(Seq(T)) /\ Len(seqs) = n
  <2> HIDE DEF n, T
  <2> QED
    BY <1>6, <1>7, <1>8
<1>10. /\ l \in Seq(T)
       /\ \A k \in 1 .. Len(l) : \E i \in 1 .. n : \E h \in 1 .. Len(seqs[i]) : l[k] = seqs[i][h]
       /\ \A i \in 1 .. n : \A h \in 1 .. Len(seqs[i]) : \E k \in 1 .. Len(l) : l[k] = seqs[i][h]
  <2> DEFINE q == FlattenSeq(seqs)
  <2>1. /\ q \in Seq(T)
        /\ \A k \in 1 .. Len(q) : \E j \in 1 .. Len(seqs) : \E h \in 1 .. Len(seqs[j]) : q[k] = seqs[j][h]
        /\ \A j \in 1 .. Len(seqs) : \A h \in 1 .. Len(seqs[j]) : \E k \in 1 .. Len(q) : q[k] = seqs[j][h]
    <3> HIDE DEF T
    <3>1. seqs \in Seq(Seq(T))
      BY <1>9
    <3> QED
      BY <3>1, FlatHas
  <2> HIDE DEF T, n, q
  <2>2. l = q
    BY <1>5 DEF q
  <2> QED
    BY <1>9, <2>1, <2>2
<1>11. ASSUME NEW k \in 1 .. Len(l)
       PROVE  /\ Live(l[k].rule)
              /\ Hit(fw, l[k], p) => /\ AnyBinds(fw, bs, p)
                                     /\ \E i \in 1 .. n : /\ Hit(fw, ts[i], p)
                                                          /\ View(ts[i].rule).act = View(l[k].rule).act
  <2>1. PICK i \in 1 .. n : \E h \in 1 .. Len(seqs[i]) : l[k] = seqs[i][h]
    BY <1>10
  <2>2. PICK h \in 1 .. Len(seqs[i]) : l[k] = seqs[i][h]
    BY <2>1
  <2> QED
    BY <1>7, <2>2
<1>12. ASSUME AnyBinds(fw, bs, p), NEW i \in 1 .. n, Hit(fw, ts[i], p)
       PROVE  \E k \in 1 .. Len(l) : Hit(fw, l[k], p) /\ View(l[k].rule).act = View(ts[i].rule).act
  <2>1. PICK h \in 1 .. Len(seqs[i]) : Hit(fw, seqs[i][h], p)
    BY <1>7, <1>12
  <2>2. PICK k \in 1 .. Len(l) : l[k] = seqs[i][h]
    BY <1>10
  <2> QED
    BY <1>7, <2>1, <2>2
<1>13. ASSUME Sorted(ts, T, D) PROVE Sorted(l, T, D)
  <2>1. ASSUME NEW i \in 1 .. n, NEW a \in 1 .. Len(seqs[i])
        PROVE  seqs[i][a] \in D <=> ts[i] \in D
    <3>1. seqs[i][a] \in T /\ ts[i] \in T
      <4> HIDE DEF T
      <4>1. seqs[i] \in Seq(T)
        BY <1>7
      <4> QED
        BY <1>6, <4>1
    <3> QED
      BY <1>7, <3>1 DEF Denying
  <2>2. ASSUME NEW i \in 1 .. n PROVE Sorted(seqs[i], T, D)
    BY <2>1 DEF Sorted
  <2>3. ASSUME NEW i \in 1 .. n, NEW j \in 1 .. n, i < j,
               NEW a \in 1 .. Len(seqs[i]), NEW b \in 1 .. Len(seqs[j]), seqs[j][b] \in D
        PROVE  seqs[i][a] \in D
    <3>1. ts[j] \in D /\ ts[i] \in T /\ ts[j] \in T
      BY <1>6, <2>1, <2>3
    <3>2. ts[i] \in D
      <4> HIDE DEF T, D
      <4> QED
        BY <1>13, <2>3, <3>1 DEF Sorted
    <3> QED
      BY <2>1, <3>2
  <2> HIDE DEF T, D
  <2> QED
    BY <1>5, <1>9, <2>2, <2>3, FlatSorted
<1> QED
  BY <1>10, <1>11, <1>12, <1>13 DEF l, ts, bs, n, T, D, N

-----------------------------------------------------------------------------
(* The rules of a service. *)

\* Templates that accept, whatever the interface and the source are.
Opens(t) ==
  /\ Live(t.rule)
  /\ View(t.rule).act = "allow" /\ View(t.rule).iif = AnyIface /\ View(t.rule).src = AnyEnd

\* Whether a packet is for the destination of a service.
DstOk(def, p) ==
  LET dst == IF p.v6 THEN def.dst6 ELSE def.dst4
  IN IF dst = NoNet THEN def.dst4 = def.dst6 ELSE p.dst \in Block(dst)

\* A view that has been made by changes of one.
ViewFields(v) ==
  v = [act |-> v.act, iif |-> v.iif, proto |-> v.proto, icmp |-> v.icmp,
       src |-> v.src, sports |-> v.sports, dst |-> v.dst, dports |-> v.dports]

\* A view is told by its fields.
LEMMA ViewIs == ASSUME NEW r PROVE ViewFields(View(r))
BY DEF View, ViewFields

\* A template for one destination.
Toward(t, d, w) == TFam(TDstNet(t, d), TDstNet(t, d).families \cap {w})

\* It is about the packets for that destination.
LEMMA TowardHits ==
  ASSUME NEW N, NEW t \in Ts(N), Opens(t), View(t.rule).dst = AnyEnd, NEW d \in Nets, NEW w \in Both, d.v6 = w,
         NEW fw, NEW p
  PROVE  /\ Toward(t, d, w) \in Ts(N) /\ Opens(Toward(t, d, w))
         /\ Hit(fw, Toward(t, d, w), p) <=> Hit(fw, t, p) /\ p.v6 = w /\ p.dst \in Block(d)
<1> DEFINE a == TDstNet(t, d)  F == a.families \cap {w}  x == TFam(a, F)  v == View(t.rule)  u == View(x.rule)
           e == [net |-> d, set |-> NoSet]
<1>1. /\ a \in Ts(N) /\ View(a.rule) = [v EXCEPT !.dst = [v.dst EXCEPT !.net = d]] /\ a.families = t.families
      /\ Live(a.rule)
  BY TDstNetType, TDstNetView DEF Opens
<1> HIDE DEF a
<1>2. F \in SUBSET Both /\ F = t.families \cap {w}
  BY <1>1, TsParts
<1> HIDE DEF F
<1>3. x \in Ts(N) /\ x.rule = a.rule /\ x.families = F
  BY <1>1, <1>2, TFamType, TFamView
<1> HIDE DEF x
<1>4. ViewFields(v)
  BY ViewIs
<1>5. v.act = "allow" /\ v.iif = AnyIface /\ v.src = AnyEnd /\ v.dst = AnyEnd
  BY DEF Opens
<1> HIDE DEF v
<1>6. [v.dst EXCEPT !.net = d] = e
  BY <1>5 DEF AnyEnd
<1>7. u = [v EXCEPT !.dst = e]
  BY <1>1, <1>3, <1>6
<1> HIDE DEF u, e
<1>8. /\ u.act = v.act /\ u.iif = v.iif /\ u.proto = v.proto /\ u.icmp = v.icmp /\ u.src = v.src
      /\ u.sports = v.sports /\ u.dst = e /\ u.dports = v.dports
  BY <1>4, <1>7 DEF ViewFields
<1>9. EndHolds(fw, e, p.dst, p.v6) <=> w = p.v6 /\ p.dst \in Block(d)
  <2>1. e.set = NoSet /\ e.net = d /\ d # NoNet
    <3>1. d # NoNet
      BY NetsAssumption DEF NetsAssumption, NoNet
    <3> QED
      BY <3>1 DEF e
  <2> QED
    BY <2>1, EndOfNet
<1>10. EndHolds(fw, v.dst, p.dst, p.v6)
  <2>1. AnyEnd.set = NoSet /\ AnyEnd.net = NoNet
    BY DEF AnyEnd
  <2>2. EndHolds(fw, AnyEnd, p.dst, p.v6)
    BY <2>1, EndOfAll
  <2> QED
    BY <1>5, <2>2
<1>11. ViewHolds(fw, u, p) <=> ViewHolds(fw, v, p) /\ w = p.v6 /\ p.dst \in Block(d)
  BY <1>8, <1>9, <1>10, Zenon DEF ViewHolds
<1>12. Hit(fw, x, p) <=> Hit(fw, t, p) /\ p.v6 = w /\ p.dst \in Block(d)
  <2>1. Hit(fw, t, p) <=> p.v6 \in t.families /\ ViewHolds(fw, v, p)
    BY DEF Hit, v
  <2>2. Hit(fw, x, p) <=> p.v6 \in x.families /\ ViewHolds(fw, u, p)
    BY DEF Hit, u
  <2> QED
    BY <1>2, <1>3, <1>11, <2>1, <2>2
<1>13. Opens(x)
  BY <1>1, <1>3, <1>5, <1>8 DEF Opens, u
<1> QED
  BY <1>3, <1>12, <1>13 DEF Toward, x, F, a

\* The templates for the destinations of a service (emitWithDst).
LEMMA WithDstHits ==
  ASSUME NEW N, NEW t \in Ts(N), Opens(t), View(t.rule).dst = AnyEnd, NEW def \in FwServices,
         NEW fw, NEW p, p.v6 \in Both
  PROVE  LET l == WithDst(t, def) IN
         /\ l \in Seq(Ts(N)) /\ \A k \in 1 .. Len(l) : Opens(l[k])
         /\ (\E k \in 1 .. Len(l) : Hit(fw, l[k], p)) <=> Hit(fw, t, p) /\ DstOk(def, p)
<1> DEFINE l == WithDst(t, def)
           no == FALSE
           yes == TRUE
           four == Toward(t, def.dst4, no)
           six == Toward(t, def.dst6, yes)
           d4 == def.dst4  d6 == def.dst6
<1>1. l = IF NoNet = d4 /\ NoNet = d6 THEN <<t>>
          ELSE (IF d4 = NoNet THEN <<>> ELSE <<four>>) \o (IF d6 = NoNet THEN <<>> ELSE <<six>>)
  BY DEF WithDst, Toward, TFam, TDstNet
<1>2. l \in Seq(Ts(N))
  BY WithDstType
<1>3. no \in Both /\ yes \in Both /\ no # yes /\ (p.v6 = no \/ p.v6 = yes)
  BY DEF Both
<1>4. d4 # NoNet => d4 \in Nets /\ d4.v6 = no
  BY DEF FwServices, FwDsts
<1>5. d6 # NoNet => d6 \in Nets /\ d6.v6 = yes
  BY DEF FwServices, FwDsts
<1>6. DstOk(def, p) <=> IF p.v6 = yes THEN (IF d6 = NoNet THEN d4 = d6 ELSE p.dst \in Block(d6))
                        ELSE (IF d4 = NoNet THEN d4 = d6 ELSE p.dst \in Block(d4))
  BY <1>3 DEF DstOk
<1> HIDE DEF no, yes, l, d4, d6
<1>7. d4 # NoNet => Opens(four) /\ (Hit(fw, four, p) <=> Hit(fw, t, p) /\ p.v6 = no /\ p.dst \in Block(d4))
  BY <1>3, <1>4, TowardHits DEF d4
<1>8. d6 # NoNet => Opens(six) /\ (Hit(fw, six, p) <=> Hit(fw, t, p) /\ p.v6 = yes /\ p.dst \in Block(d6))
  BY <1>3, <1>5, TowardHits DEF d6
<1> HIDE DEF four, six
<1>9. CASE d4 = NoNet /\ d6 = NoNet
  <2>1. Len(l) = 1 /\ l[1] = t
    BY <1>1, <1>9
  <2> QED
    BY <1>2, <1>6, <1>9, <2>1 DEF l
<1>10. CASE d4 # NoNet /\ d6 = NoNet
  <2>1. Len(l) = 1 /\ l[1] = four
    BY <1>1, <1>10
  <2> QED
    BY <1>2, <1>3, <1>6, <1>7, <1>10, <2>1 DEF l
<1>11. CASE d4 = NoNet /\ d6 # NoNet
  <2>1. Len(l) = 1 /\ l[1] = six
    BY <1>1, <1>11
  <2> QED
    BY <1>2, <1>3, <1>6, <1>8, <1>11, <2>1 DEF l
<1>12. CASE d4 # NoNet /\ d6 # NoNet
  <2>1. Len(l) = 2 /\ l[1] = four /\ l[2] = six
    BY <1>1, <1>12
  <2>2. \A k \in 1 .. Len(l) : k = 1 \/ k = 2
    BY <2>1
  <2>3. 1 \in 1 .. Len(l) /\ 2 \in 1 .. Len(l)
    BY <2>1
  <2> QED
    BY <1>2, <1>3, <1>6, <1>7, <1>8, <1>12, <2>1, <2>2, <2>3 DEF l
<1> QED
  BY <1>9, <1>10, <1>11, <1>12

-----------------------------------------------------------------------------
(* The ports and the protocols of a service. *)

\* A port among others, with its protocol.
LEMMA PortsHit ==
  ASSUME NEW ports \in SUBSET FwPorts, NEW port, NEW p
  PROVE  /\ InPorts(ports, port, p.proto) /\ ports # {} <=> HasPort(ports, port, p.proto)
         /\ HasPort(ports, port, p.proto) => p.proto \in {"tcp", "udp"} /\ ProtoOk(ProtoOfPorts(ports), p)
<1>1. \A q \in ports : q.proto \in {"tcp", "udp"}
  BY DEF FwPorts
<1>2. InPorts(ports, port, p.proto) /\ ports # {} <=> HasPort(ports, port, p.proto)
  BY <1>1 DEF InPorts, HasPort
<1>3. ASSUME HasPort(ports, port, p.proto)
      PROVE  p.proto \in {"tcp", "udp"} /\ ProtoOk(ProtoOfPorts(ports), p)
  <2>1. PICK q \in ports : q.proto = p.proto
    BY <1>3 DEF HasPort
  <2> DEFINE protos == {x.proto : x \in ports}
  <2>2. p.proto \in protos
    BY <2>1
  <2>3. ProtoOfPorts(ports) = IF protos \in {{"tcp"}, {"udp"}} THEN CHOOSE x \in protos : TRUE ELSE "any"
    BY DEF ProtoOfPorts
  <2> HIDE DEF protos
  <2>4. protos \in {{"tcp"}, {"udp"}} => (CHOOSE x \in protos : TRUE) = p.proto
    BY <2>2
  <2> QED
    BY <1>1, <2>1, <2>3, <2>4 DEF ProtoOk
<1> QED
  BY <1>2, <1>3

\* A template without conditions holds of each packet that comes in.
LEMMA PlainHits ==
  ASSUME NEW a, NEW F, NEW fw, NEW p
  PROVE  LET t == Template(a, F) IN
         Hit(fw, t, p) <=> p.v6 \in F
<1> DEFINE t == Template(a, F)  v == View(t.rule)
<1>1. /\ v = [act |-> a, iif |-> AnyIface, proto |-> "any", icmp |-> AnyType,
              src |-> AnyEnd, sports |-> {}, dst |-> AnyEnd, dports |-> {}]
      /\ t.families = F
  BY TemplateView
<1>2. Hit(fw, t, p) <=> p.v6 \in t.families /\ ViewHolds(fw, v, p)
  BY DEF Hit
<1> HIDE DEF v, t
<1>3. AnyEnd.set = NoSet /\ AnyEnd.net = NoNet
  BY DEF AnyEnd
<1>4. EndHolds(fw, AnyEnd, p.src, p.v6) /\ EndHolds(fw, AnyEnd, p.dst, p.v6)
  BY <1>3, EndOfAll
<1>5. /\ v.iif = AnyIface /\ v.proto = "any" /\ v.icmp = AnyType /\ v.src = AnyEnd /\ v.sports = {}
      /\ v.dst = AnyEnd /\ v.dports = {}
  BY <1>1
<1>6. IfaceOk(v.iif, p.iif) /\ ProtoOk(v.proto, p) /\ TypeOk(v.icmp, p)
  BY <1>5 DEF IfaceOk, ProtoOk, TypeOk
<1>7. InPorts(v.sports, p.sport, p.proto) /\ InPorts(v.dports, p.dport, p.proto) /\ v.sports \cup v.dports = {}
  BY <1>5 DEF InPorts
<1>8. ViewHolds(fw, v, p)
  BY <1>4, <1>5, <1>6, <1>7 DEF ViewHolds
<1> QED
  BY <1>1, <1>2, <1>8 DEF t

\* A template for ports of the destination, and one for a protocol.
LEMMA PortTemplate ==
  ASSUME NEW N, NEW ports \in SUBSET FwPorts, ports # {}, NEW fw, NEW p, p.v6 \in Both
  PROVE  LET t == TDstPorts(TProto(Template("allow", Both), ProtoOfPorts(ports)), ports) IN
         /\ t \in Ts(N) /\ Opens(t) /\ View(t.rule).dst = AnyEnd
         /\ Hit(fw, t, p) <=> HasPort(ports, p.dport, p.proto)
<1> DEFINE a == Template("allow", Both)  x == ProtoOfPorts(ports)  b == TProto(a, x)  t == TDstPorts(b, ports)
           v == View(a.rule)  u == View(t.rule)
<1>1. "allow" \in Texts /\ x \in Texts /\ ports \in SUBSET PortRanges /\ Both \in SUBSET Both
  BY TextsAssumption, ProtoOfPortsType DEF FwPorts
<1>2. a \in Ts(N) /\ a.families = Both /\ Live(a.rule)
      /\ v = [act |-> "allow", iif |-> AnyIface, proto |-> "any", icmp |-> AnyType,
              src |-> AnyEnd, sports |-> {}, dst |-> AnyEnd, dports |-> {}]
  BY <1>1, TemplateType, TemplateView
<1>3. Hit(fw, a, p)
  BY PlainHits
<1>4. ViewHolds(fw, v, p)
  BY <1>3 DEF Hit
<1> HIDE DEF a, x
<1>5. b \in Ts(N) /\ b.families = Both /\ Live(b.rule) /\ View(b.rule) = [v EXCEPT !.proto = x]
  BY <1>1, <1>2, TProtoType, TProtoView
<1> HIDE DEF b, v
<1>6. t \in Ts(N) /\ t.families = Both /\ Live(t.rule) /\ u = [View(b.rule) EXCEPT !.dports = ports]
  BY <1>1, <1>5, TDstPortsType, TDstPortsView
<1> HIDE DEF u
<1>7. /\ u.act = "allow" /\ u.iif = AnyIface /\ u.proto = x /\ u.icmp = AnyType
      /\ u.src = AnyEnd /\ u.sports = {} /\ u.dst = AnyEnd /\ u.dports = ports
      /\ v.iif = AnyIface /\ v.icmp = AnyType /\ v.src = AnyEnd /\ v.sports = {} /\ v.dst = AnyEnd
  BY <1>2, <1>5, <1>6
<1>8. Hit(fw, t, p) <=> ViewHolds(fw, u, p)
  BY <1>6 DEF Hit, u
<1> HIDE DEF t
<1>9. /\ InPorts(ports, p.dport, p.proto) <=> HasPort(ports, p.dport, p.proto)
      /\ HasPort(ports, p.dport, p.proto) => p.proto \in {"tcp", "udp"} /\ ProtoOk(x, p)
  BY PortsHit DEF x
<1>10. ViewHolds(fw, u, p) <=> HasPort(ports, p.dport, p.proto)
  BY <1>4, <1>7, <1>9, Zenon DEF ViewHolds
<1>11. Opens(t)
  BY <1>6, <1>7 DEF Opens, u
<1> QED
  BY <1>6, <1>7, <1>8, <1>10, <1>11 DEF t, u, b, a, x

\* A template for a protocol.
LEMMA ProtoTemplate ==
  ASSUME NEW N, NEW x \in DOMAIN FwProtos, NEW fw, NEW p, p.v6 \in Both, OwnProto(p)
  PROVE  LET t == TProto(Template("allow", FwProtos[x]), x) IN
         /\ t \in Ts(N) /\ Opens(t) /\ View(t.rule).dst = AnyEnd
         /\ Hit(fw, t, p) <=> p.proto = x
<1> DEFINE F == FwProtos[x]  a == Template("allow", F)  t == TProto(a, x)
           v == View(a.rule)  u == View(t.rule)
<1>1. "allow" \in Texts /\ x \in Texts /\ F \in SUBSET Both
  BY TextsAssumption, FwProtosType
<1>0. x # "any"
  BY DEF FwProtos
<1>a. p.proto = x => p.v6 \in F
  BY DEF OwnProto
<1> HIDE DEF F
<1>2. a \in Ts(N) /\ a.families = F /\ Live(a.rule)
      /\ v = [act |-> "allow", iif |-> AnyIface, proto |-> "any", icmp |-> AnyType,
              src |-> AnyEnd, sports |-> {}, dst |-> AnyEnd, dports |-> {}]
  BY <1>1, TemplateType, TemplateView
<1>3. Hit(fw, a, p) <=> p.v6 \in F
  BY PlainHits
<1>4. p.v6 \in F => ViewHolds(fw, v, p)
  BY <1>3 DEF Hit
<1> HIDE DEF a
<1>5. t \in Ts(N) /\ t.families = F /\ Live(t.rule) /\ u = [v EXCEPT !.proto = x]
  BY <1>1, <1>2, TProtoType, TProtoView
<1> HIDE DEF v, u
<1>7. /\ u.act = "allow" /\ u.iif = AnyIface /\ u.proto = x /\ u.icmp = AnyType
      /\ u.src = AnyEnd /\ u.sports = {} /\ u.dst = AnyEnd /\ u.dports = {}
      /\ v.iif = AnyIface /\ v.icmp = AnyType /\ v.src = AnyEnd /\ v.sports = {} /\ v.dst = AnyEnd /\ v.dports = {}
  BY <1>2, <1>5
<1>8. Hit(fw, t, p) <=> p.v6 \in F /\ ViewHolds(fw, u, p)
  BY <1>5 DEF Hit, u
<1> HIDE DEF t
<1>9. ProtoOk(x, p) <=> p.proto = x
  BY <1>0 DEF ProtoOk
<1>10. p.v6 \in F => (ViewHolds(fw, u, p) <=> p.proto = x)
  BY <1>4, <1>7, <1>9, Zenon DEF ViewHolds
<1>11. Opens(t)
  BY <1>5, <1>7 DEF Opens, u
<1> QED
  BY <1>a, <1>5, <1>7, <1>8, <1>10, <1>11 DEF t, u, a, F

\* The rules of a service.
LEMMA EmitServiceHits ==
  ASSUME NEW N, NEW def \in FwServices, NEW fw, NEW p, p.v6 \in Both, OwnProto(p)
  PROVE  LET l == EmitService(def) IN
         /\ l \in Seq(Ts(N)) /\ \A k \in 1 .. Len(l) : Opens(l[k])
         /\ (\E k \in 1 .. Len(l) : Hit(fw, l[k], p))
            <=> (HasPort(def.ports, p.dport, p.proto) \/ p.proto \in ToSet(def.protos)) /\ DstOk(def, p)
<1> DEFINE T == Ts(N)
           protos == def.protos
           n == Len(protos)
           seqs == [i \in DOMAIN protos |->
                      WithDst([Template("allow", FwProtos[protos[i]]) EXCEPT !.rule.proto = protos[i]], def)]
           t == TDstPorts(TProto(Template("allow", Both), ProtoOfPorts(def.ports)), def.ports)
           first == IF def.ports = {} THEN <<>> ELSE WithDst(t, def)
           rest == FlattenSeq(seqs)
           l == EmitService(def)
           Some(q) == \E k \in 1 .. Len(q) : Hit(fw, q[k], p)
           D == DOMAIN FwProtos
<1>1. l = first \o rest
  BY DEF EmitService, TDstPorts, TProto
<1>2. def.ports \in SUBSET FwPorts /\ protos \in Seq(D)
  BY DEF FwServices
<1>3. def.ports # {} => /\ t \in T /\ Opens(t) /\ View(t.rule).dst = AnyEnd
                        /\ Hit(fw, t, p) <=> HasPort(def.ports, p.dport, p.proto)
  BY <1>2, PortTemplate
<1> HIDE DEF t
<1>4. /\ first \in Seq(T) /\ \A k \in 1 .. Len(first) : Opens(first[k])
      /\ Some(first) <=> HasPort(def.ports, p.dport, p.proto) /\ DstOk(def, p)
  <2>1. CASE def.ports = {}
    <3>1. first = <<>> /\ Len(first) = 0
      BY <2>1
    <3>2. ~HasPort(def.ports, p.dport, p.proto)
      BY <2>1 DEF HasPort
    <3>3. ~Some(first) /\ \A k \in 1 .. Len(first) : Opens(first[k])
      <4> HIDE DEF first
      <4> QED
        BY <3>1
    <3>4. <<>> \in Seq(T)
      <4> HIDE DEF T
      <4> QED
        OBVIOUS
    <3> HIDE DEF T, first, Some
    <3> QED
      BY <3>1, <3>2, <3>3, <3>4
  <2>2. CASE def.ports # {}
    <3>1. first = WithDst(t, def)
      BY <2>2
    <3> DEFINE q == WithDst(t, def)
    <3>2. /\ q \in Seq(Ts(N)) /\ \A k \in 1 .. Len(q) : Opens(q[k])
          /\ (\E k \in 1 .. Len(q) : Hit(fw, q[k], p)) <=> Hit(fw, t, p) /\ DstOk(def, p)
      BY <1>3, <2>2, WithDstHits
    <3> HIDE DEF q, first
    <3> QED
      BY <1>3, <2>2, <3>1, <3>2 DEF q
  <2> QED
    BY <2>1, <2>2
<1> HIDE DEF protos, D, first
<1>5. n \in Nat /\ DOMAIN protos = 1 .. n /\ \A i \in 1 .. n : protos[i] \in D
  BY <1>2
<1>6. ASSUME NEW i \in 1 .. n
      PROVE  /\ seqs[i] \in Seq(T) /\ \A k \in 1 .. Len(seqs[i]) : Opens(seqs[i][k])
             /\ Some(seqs[i]) <=> p.proto = protos[i] /\ DstOk(def, p)
  <2> DEFINE x == protos[i]  a == TProto(Template("allow", FwProtos[x]), x)  q == WithDst(a, def)
  <2>1. x \in DOMAIN FwProtos
    BY <1>5 DEF D
  <2>2. seqs[i] = q
    BY <1>5 DEF TProto
  <2> HIDE DEF x, seqs
  <2>3. a \in Ts(N) /\ Opens(a) /\ View(a.rule).dst = AnyEnd /\ (Hit(fw, a, p) <=> p.proto = x)
    BY <2>1, ProtoTemplate
  <2> HIDE DEF a
  <2>4. /\ q \in Seq(Ts(N)) /\ \A k \in 1 .. Len(q) : Opens(q[k])
        /\ (\E k \in 1 .. Len(q) : Hit(fw, q[k], p)) <=> Hit(fw, a, p) /\ DstOk(def, p)
    BY <2>3, WithDstHits
  <2> HIDE DEF q
  <2> QED
    BY <2>2, <2>3, <2>4 DEF x
<1>7. seqs = [i \in 1 .. n |-> seqs[i]]
  BY <1>5
<1> HIDE DEF seqs
<1>8. seqs \in Seq(Seq(T)) /\ Len(seqs) = n
  <2> HIDE DEF n, T
  <2> QED
    BY <1>5, <1>6, <1>7
<1>9. /\ rest \in Seq(T)
      /\ \A k \in 1 .. Len(rest) : \E j \in 1 .. n : \E h \in 1 .. Len(seqs[j]) : rest[k] = seqs[j][h]
      /\ \A j \in 1 .. n : \A h \in 1 .. Len(seqs[j]) : \E k \in 1 .. Len(rest) : rest[k] = seqs[j][h]
  <2>1. /\ rest \in Seq(T)
        /\ \A k \in 1 .. Len(rest) : \E j \in 1 .. Len(seqs) : \E h \in 1 .. Len(seqs[j]) : rest[k] = seqs[j][h]
        /\ \A j \in 1 .. Len(seqs) : \A h \in 1 .. Len(seqs[j]) : \E k \in 1 .. Len(rest) : rest[k] = seqs[j][h]
    <3> HIDE DEF T
    <3>1. seqs \in Seq(Seq(T))
      BY <1>8
    <3> QED
      BY <3>1, FlatHas
  <2> HIDE DEF T, n, rest
  <2> QED
    BY <1>8, <2>1
<1> HIDE DEF rest, T
<1>10. \A k \in 1 .. Len(rest) : Opens(rest[k])
  <2> SUFFICES ASSUME NEW k \in 1 .. Len(rest) PROVE Opens(rest[k])
    OBVIOUS
  <2>1. PICK j \in 1 .. n : \E h \in 1 .. Len(seqs[j]) : rest[k] = seqs[j][h]
    BY <1>9
  <2> QED
    BY <1>6, <2>1
<1>11. Some(rest) <=> \E i \in 1 .. n : Some(seqs[i])
  <2>1. ASSUME Some(rest) PROVE \E i \in 1 .. n : Some(seqs[i])
    <3>1. PICK k \in 1 .. Len(rest) : Hit(fw, rest[k], p)
      BY <2>1
    <3>2. PICK j \in 1 .. n : \E h \in 1 .. Len(seqs[j]) : rest[k] = seqs[j][h]
      BY <1>9
    <3> QED
      BY <3>1, <3>2
  <2>2. ASSUME NEW i \in 1 .. n, Some(seqs[i]) PROVE Some(rest)
    <3>1. PICK h \in 1 .. Len(seqs[i]) : Hit(fw, seqs[i][h], p)
      BY <2>2
    <3>2. PICK k \in 1 .. Len(rest) : rest[k] = seqs[i][h]
      BY <1>9
    <3> QED
      BY <3>1, <3>2
  <2> QED
    BY <2>1, <2>2
<1>12. Some(rest) <=> p.proto \in ToSet(protos) /\ DstOk(def, p)
  <2>1. p.proto \in ToSet(protos) <=> \E i \in 1 .. n : p.proto = protos[i]
    BY <1>5 DEF ToSet
  <2> HIDE DEF Some
  <2> QED
    BY <1>6, <1>11, <2>1
<1>13. l \in Seq(T) /\ Len(l) = Len(first) + Len(rest)
       /\ (\A k \in 1 .. Len(first) : l[k] = first[k])
       /\ (\A k \in 1 .. Len(rest) : l[Len(first) + k] = rest[k])
       /\ Len(first) \in Nat /\ Len(rest) \in Nat
  <2>1. first \in Seq(T) /\ rest \in Seq(T)
    BY <1>4, <1>9
  <2> HIDE DEF l
  <2> QED
    BY <1>1, <2>1
<1> HIDE DEF l
<1>14. \A k \in 1 .. Len(l) : k \in 1 .. Len(first) \/ \E h \in 1 .. Len(rest) : k = Len(first) + h
  <2> SUFFICES ASSUME NEW k \in 1 .. Len(l), k \notin 1 .. Len(first)
               PROVE  \E h \in 1 .. Len(rest) : k = Len(first) + h
    OBVIOUS
  <2>1. k - Len(first) \in 1 .. Len(rest) /\ k = Len(first) + (k - Len(first))
    BY <1>13
  <2> QED
    BY <2>1
<1>15. \A k \in 1 .. Len(l) : Opens(l[k])
  BY <1>4, <1>10, <1>13, <1>14
<1>16. Some(l) <=> Some(first) \/ Some(rest)
  <2>1. \A k \in 1 .. Len(first) : k \in 1 .. Len(l)
    BY <1>13
  <2>2. \A h \in 1 .. Len(rest) : Len(first) + h \in 1 .. Len(l)
    BY <1>13
  <2>3. ASSUME Some(l) PROVE Some(first) \/ Some(rest)
    BY <1>13, <1>14, <2>3
  <2>4. ASSUME Some(first) PROVE Some(l)
    BY <1>13, <2>1, <2>4
  <2>5. ASSUME Some(rest) PROVE Some(l)
    BY <1>13, <2>2, <2>5
  <2> QED
    BY <2>3, <2>4, <2>5
<1>17. Some(l) <=> (HasPort(def.ports, p.dport, p.proto) \/ p.proto \in ToSet(def.protos)) /\ DstOk(def, p)
  <2> HIDE DEF Some
  <2> QED
    BY <1>4, <1>12, <1>16 DEF protos
<1> QED
  BY <1>13, <1>15, <1>17 DEF l, T

-----------------------------------------------------------------------------
(* Services and what they include.                                         *)

\* What ports and protocols a service has, whatever its destination is.
Offers(def, p) == HasPort(def.ports, p.dport, p.proto) \/ p.proto \in ToSet(def.protos)

\* A service that takes in another one offers what both offer.
LEMMA IncludeOffers ==
  ASSUME NEW out \in FwServices, NEW sub \in FwServices, NEW p
  PROVE  LET both == Include(out, sub) IN
         /\ both.ok => out.ok /\ sub.ok
         /\ both.ok /\ sub.dst4 = out.dst4 /\ sub.dst6 = out.dst6 => both.dst4 = out.dst4 /\ both.dst6 = out.dst6
         /\ Offers(both, p) <=> Offers(out, p) \/ Offers(sub, p)
<1> DEFINE both == Include(out, sub)
           D == DOMAIN FwProtos  a == out.protos  b == sub.protos
<1>1. /\ both.ok => out.ok /\ sub.ok
      /\ sub.dst4 = out.dst4 /\ sub.dst6 = out.dst6 => both.dst4 = out.dst4 /\ both.dst6 = out.dst6
      /\ both.ports = out.ports \cup sub.ports /\ both.protos = a \o b
  BY DEF Include, JoinDst
<1>2. HasPort(both.ports, p.dport, p.proto)
      <=> HasPort(out.ports, p.dport, p.proto) \/ HasPort(sub.ports, p.dport, p.proto)
  <2> HIDE DEF both
  <2> QED
    BY <1>1 DEF HasPort
<1>3. ToSet(a \o b) = ToSet(a) \cup ToSet(b)
  <2>1. a \in Seq(D) /\ b \in Seq(D)
    BY DEF FwServices
  <2> HIDE DEF a, b, D
  <2>2. /\ Len(a \o b) = Len(a) + Len(b) /\ Len(a) \in Nat /\ Len(b) \in Nat
        /\ DOMAIN a = 1 .. Len(a) /\ DOMAIN b = 1 .. Len(b) /\ DOMAIN (a \o b) = 1 .. Len(a \o b)
        /\ \A k \in 1 .. Len(a) : (a \o b)[k] = a[k]
        /\ \A k \in 1 .. Len(b) : (a \o b)[Len(a) + k] = b[k]
    BY <2>1
  <2> DEFINE c == a \o b
  <2>3. ASSUME NEW x \in ToSet(c) PROVE x \in ToSet(a) \cup ToSet(b)
    <3> HIDE DEF c
    <3>1. PICK k \in 1 .. Len(c) : x = c[k]
      BY <2>2 DEF ToSet, c
    <3>2. CASE k \in 1 .. Len(a)
      BY <2>2, <3>1, <3>2 DEF ToSet, c
    <3>3. CASE k \notin 1 .. Len(a)
      <4>1. k - Len(a) \in 1 .. Len(b) /\ Len(a) + (k - Len(a)) = k
        BY <2>2, <3>3 DEF c
      <4>2. c[k] = b[k - Len(a)]
        BY <2>2, <4>1 DEF c
      <4> QED
        BY <2>2, <3>1, <4>1, <4>2 DEF ToSet
    <3> QED
      BY <3>2, <3>3
  <2>4. ASSUME NEW x \in ToSet(a) PROVE x \in ToSet(c)
    <3>1. PICK k \in 1 .. Len(a) : x = a[k]
      BY <2>2 DEF ToSet
    <3>2. k \in 1 .. Len(c) /\ c[k] = x
      BY <2>2, <3>1
    <3> HIDE DEF c
    <3> QED
      BY <2>2, <3>2 DEF ToSet, c
  <2>5. ASSUME NEW x \in ToSet(b) PROVE x \in ToSet(c)
    <3>1. PICK k \in 1 .. Len(b) : x = b[k]
      BY <2>2 DEF ToSet
    <3>2. Len(a) + k \in 1 .. Len(c) /\ c[Len(a) + k] = x
      BY <2>2, <3>1
    <3> HIDE DEF c
    <3> QED
      BY <2>2, <3>2 DEF ToSet, c
  <2> QED
    BY <2>3, <2>4, <2>5
<1> HIDE DEF both
<1> QED
  BY <1>1, <1>2, <1>3 DEF Offers, both

\* What services become with those that they include.
LEMMA IncludesOffer ==
  ASSUME NEW subs \in [Texts -> FwServices], NEW def \in FwServices, NEW p
  PROVE  LET whole == WithIncludes(subs, def)  incs == def.includes  n == Len(incs) IN
         /\ whole \in FwServices
         /\ whole.ok => /\ def.ok /\ \A j \in 1 .. n : subs[incs[j]].ok
                        /\ (\A j \in 1 .. n : /\ subs[incs[j]].dst4 = def.dst4
                                              /\ subs[incs[j]].dst6 = def.dst6)
                           => whole.dst4 = def.dst4 /\ whole.dst6 = def.dst6
         /\ Offers(whole, p) <=> Offers(def, p) \/ \E j \in 1 .. n : Offers(subs[incs[j]], p)
<1> DEFINE whole == WithIncludes(subs, def)
           incs == def.includes
           n == Len(incs)
           SameDst(d) == d.dst4 = def.dst4 /\ d.dst6 = def.dst6
<1>1. incs \in Seq(Texts) /\ n \in Nat /\ \A j \in 1 .. n : incs[j] \in Texts
  <2>1. incs \in Seq(Texts)
    BY DEF FwServices
  <2> HIDE DEF incs
  <2> QED
    BY <2>1
<1>2. whole = FoldLeft(LAMBDA out, inc : Include(out, subs[inc]), def, incs)
  BY DEF WithIncludes
<1> HIDE DEF incs, n, whole
<1>3. PICK t \in [0 .. Len(incs) -> FwServices] :
        /\ t[0] = def
        /\ \A i \in 1 .. Len(incs) : t[i] = Include(t[i - 1], subs[incs[i]])
        /\ FoldLeft(LAMBDA out, inc : Include(out, subs[inc]), def, incs) = t[Len(incs)]
  BY <1>1, IncludesTrace, Zenon
<1>4. whole = t[n] /\ \A j \in 1 .. n : t[j] = Include(t[j - 1], subs[incs[j]])
  BY <1>2, <1>3 DEF n
<1>5. \A j \in 0 .. n : t[j] \in FwServices
  BY <1>3 DEF n
<1> DEFINE Good(i) ==
             /\ t[i].ok => /\ def.ok /\ \A j \in 1 .. i : subs[incs[j]].ok
                           /\ (\A j \in 1 .. i : SameDst(subs[incs[j]])) => SameDst(t[i])
             /\ Offers(t[i], p) <=> Offers(def, p) \/ \E j \in 1 .. i : Offers(subs[incs[j]], p)
           T == {i \in 0 .. n : ~Good(i)}
<1> HIDE DEF SameDst
<1>6. Good(0)
  <2>1. SameDst(def) /\ \A j : j \notin 1 .. 0
    BY DEF SameDst
  <2> QED
    BY <1>3, <2>1
<1>7. ASSUME NEW i \in 1 .. n, Good(i - 1) PROVE Good(i)
  <2> DEFINE a == t[i - 1]  b == subs[incs[i]]
  <2>1. /\ a \in FwServices /\ b \in FwServices /\ t[i] = Include(a, b)
    <3>1. i - 1 \in 0 .. n /\ incs[i] \in Texts
      BY <1>1
    <3> QED
      BY <1>4, <1>5, <3>1
  <2>2. \A j : j \in 1 .. i <=> j \in 1 .. i - 1 \/ j = i
    BY <1>1
  <2>3. Good(i - 1)
    BY <1>7
  <2> HIDE DEF a, b
  <2>4. /\ t[i].ok => a.ok /\ b.ok
        /\ t[i].ok /\ b.dst4 = a.dst4 /\ b.dst6 = a.dst6 => t[i].dst4 = a.dst4 /\ t[i].dst6 = a.dst6
        /\ Offers(t[i], p) <=> Offers(a, p) \/ Offers(b, p)
    BY <2>1, IncludeOffers
  <2>5. t[i].ok => def.ok /\ \A j \in 1 .. i : subs[incs[j]].ok
    BY <2>2, <2>3, <2>4 DEF a, b
  <2>6. t[i].ok /\ (\A j \in 1 .. i : SameDst(subs[incs[j]])) => SameDst(t[i])
    <3>1. t[i].ok /\ (\A j \in 1 .. i : SameDst(subs[incs[j]])) => SameDst(a) /\ SameDst(b)
      BY <2>2, <2>3, <2>4 DEF a, b
    <3> QED
      BY <2>4, <3>1 DEF SameDst
  <2>7. Offers(t[i], p) <=> Offers(def, p) \/ \E j \in 1 .. i : Offers(subs[incs[j]], p)
    BY <2>2, <2>3, <2>4 DEF a, b
  <2> QED
    BY <2>5, <2>6, <2>7
<1> HIDE DEF Good
<1>8. T = {}
  <2>1. T \in SUBSET (0 .. n) /\ 0 \notin T /\ \A i \in 1 .. n : i - 1 \notin T => i \notin T
    <3>1. \A i \in 1 .. n : i - 1 \in 0 .. n
      BY <1>1
    <3> QED
      BY <1>6, <1>7, <3>1
  <2> HIDE DEF T
  <2> QED
    BY <1>1, <2>1, NoneFails
<1>9. Good(n) /\ t[n] \in FwServices
  <2>1. n \in 0 .. n
    BY <1>1
  <2> QED
    BY <1>5, <1>8, <2>1
<1> QED
  BY <1>4, <1>9 DEF Good, SameDst, whole, incs, n

\* Includes that are resolved alike.
LEMMA IncludesAlike ==
  ASSUME NEW g \in [Texts -> FwServices], NEW h \in [Texts -> FwServices], NEW def \in FwServices,
         \A j \in 1 .. Len(def.includes) : g[def.includes[j]] = h[def.includes[j]]
  PROVE  WithIncludes(g, def) = WithIncludes(h, def)
<1> DEFINE incs == def.includes
           n == Len(incs)
           wholeg == WithIncludes(g, def)
           wholeh == WithIncludes(h, def)
<1>1. incs \in Seq(Texts) /\ n \in Nat
  <2>1. incs \in Seq(Texts)
    BY DEF FwServices
  <2> HIDE DEF incs
  <2> QED
    BY <2>1
<1>2. /\ wholeg = FoldLeft(LAMBDA out, inc : Include(out, g[inc]), def, incs)
      /\ wholeh = FoldLeft(LAMBDA out, inc : Include(out, h[inc]), def, incs)
  BY DEF WithIncludes
<1>0. \A j \in 1 .. n : g[incs[j]] = h[incs[j]]
  OBVIOUS
<1> HIDE DEF incs, n, wholeg, wholeh
<1>3. PICK t \in [0 .. Len(incs) -> FwServices] :
        /\ t[0] = def
        /\ \A i \in 1 .. Len(incs) : t[i] = Include(t[i - 1], g[incs[i]])
        /\ FoldLeft(LAMBDA out, inc : Include(out, g[inc]), def, incs) = t[Len(incs)]
  BY <1>1, IncludesTrace, Zenon
<1>4. PICK u \in [0 .. Len(incs) -> FwServices] :
        /\ u[0] = def
        /\ \A i \in 1 .. Len(incs) : u[i] = Include(u[i - 1], h[incs[i]])
        /\ FoldLeft(LAMBDA out, inc : Include(out, h[inc]), def, incs) = u[Len(incs)]
  BY <1>1, IncludesTrace, Zenon
<1> DEFINE T == {i \in 0 .. n : t[i] # u[i]}
<1>5. T = {}
  <2>1. 0 \notin T
    BY <1>3, <1>4
  <2>2. ASSUME NEW i \in 1 .. n, i - 1 \notin T PROVE i \notin T
    <3>1. i - 1 \in 0 .. n
      BY <1>1
    <3>2. t[i - 1] = u[i - 1]
      BY <2>2, <3>1
    <3>3. t[i] = Include(t[i - 1], g[incs[i]]) /\ u[i] = Include(u[i - 1], h[incs[i]])
      BY <1>3, <1>4 DEF n
    <3>4. t[i] = u[i]
      BY <1>0, <3>2, <3>3, Zenon
    <3> QED
      BY <3>4
  <2>3. T \in SUBSET (0 .. n)
    OBVIOUS
  <2> HIDE DEF T
  <2> QED
    BY <1>1, <2>1, <2>2, <2>3, NoneFails
<1>6. t[n] = u[n]
  <2>1. n \in 0 .. n
    BY <1>1
  <2> QED
    BY <1>5, <2>1
<1> QED
  <2>1. wholeg = t[n] /\ wholeh = u[n]
    BY <1>2, <1>3, <1>4 DEF n
  <2> QED
    BY <1>6, <2>1 DEF wholeg, wholeh

\* One more that is open leaves fewer.
LEMMA LeftLess ==
  ASSUME NEW D, IsFiniteSet(D), NEW open \in SUBSET D, NEW n \in D \ open
  PROVE  Cardinality(D \ (open \cup {n})) < Cardinality(D \ open)
<1>1. IsFiniteSet(D \ open) /\ Cardinality(D \ open) \in Nat
  BY FS_Subset, FS_CardinalityType
<1>2. D \ (open \cup {n}) = (D \ open) \ {n}
  OBVIOUS
<1>3. Cardinality((D \ open) \ {n}) = Cardinality(D \ open) - 1
  BY <1>1, FS_RemoveElement
<1> DEFINE c == Cardinality(D \ open)  d == Cardinality(D \ (open \cup {n}))
<1>4. d = c - 1
  BY <1>2, <1>3, Zenon
<1> HIDE DEF c, d
<1>5. d < c
  BY <1>1, <1>4 DEF c
<1> QED
  BY <1>5 DEF c, d

\* What holds of what is open if it holds with each more that is open.
LEMMA FewerLeft ==
  ASSUME NEW D, IsFiniteSet(D), NEW B \in SUBSET (SUBSET D),
         \A open \in SUBSET D : (\A n \in D \ open : open \cup {n} \notin B) => open \notin B
  PROVE  B = {}
<1> DEFINE left(open) == Cardinality(D \ open)
           T == {left(open) : open \in B}
<1>1. ASSUME NEW open \in SUBSET D
      PROVE  /\ left(open) \in Nat
             /\ \A n \in D \ open : open \cup {n} \in SUBSET D /\ left(open \cup {n}) < left(open)
  <2>1. left(open) \in Nat
    BY FS_Subset, FS_CardinalityType
  <2>2. \A n \in D \ open : left(open \cup {n}) < left(open)
    BY LeftLess
  <2> QED
    BY <2>1, <2>2
<1> SUFFICES ASSUME B # {} PROVE FALSE
  OBVIOUS
<1>2. PICK m \in T : \A k \in T : m <= k
  <2>1. \A open \in B : open \in SUBSET D /\ left(open) \in Nat
    BY <1>1
  <2> HIDE DEF left
  <2>2. T \in SUBSET Nat /\ T # {}
    BY <2>1
  <2> HIDE DEF T
  <2> QED
    BY <2>2, Smallest
<1>3. PICK open \in B : m = left(open)
  OBVIOUS
<1>4. PICK n \in D \ open : open \cup {n} \in B
  BY <1>3
<1>5. left(open \cup {n}) \in T /\ left(open \cup {n}) < left(open)
  BY <1>1, <1>3, <1>4
<1>6. left(open \cup {n}) \in Nat /\ m \in Nat
  BY <1>1, <1>3, <1>4
<1> HIDE DEF left, T
<1> QED
  BY <1>2, <1>3, <1>5, <1>6

\* Services as they are resolved, with more and more of them open.
LEMMA ResolvesTo ==
  ASSUME NEW fw, IsDir(fw.services, FwServices)
  PROVE  LET r == ResolveService(fw)  D == DOMAIN fw.services IN
         \A open \in SUBSET D :
            /\ r[open] \in [Texts -> FwServices]
            /\ \A n \in Texts :
                  r[open][n] = IF n \in open THEN NoService
                               ELSE WithIncludes(r[open \cup {n}], ServiceDef(fw, n))
<1> DEFINE D == DOMAIN fw.services
           R(h) == h = [open \in SUBSET D |-> Resolving(fw, h, open)]
           r == CHOOSE h : R(h)
           B == {open \in SUBSET D : r[open] \notin [Texts -> FwServices]}
<1>1. ResolveService(fw) = r
  BY DEF ResolveService, Resolving
<1>2. \E h : R(h)
  BY ResolvingExists, Zenon
<1>3. R(r)
  BY <1>2, Zenon
<1> HIDE DEF r
<1>4. ASSUME NEW open \in SUBSET D PROVE r[open] = Resolving(fw, r, open)
  BY <1>3, Zenon
<1>5. B = {}
  <2>1. ASSUME NEW open \in SUBSET D, \A n \in D \ open : open \cup {n} \notin B
        PROVE  open \notin B
    <3>1. \A n \in D \ open : r[open \cup {n}] \in [Texts -> FwServices]
      <4> SUFFICES ASSUME NEW n \in D \ open PROVE r[open \cup {n}] \in [Texts -> FwServices]
        OBVIOUS
      <4>1. open \cup {n} \in SUBSET D /\ open \cup {n} \notin B
        BY <2>1
      <4> QED
        BY <4>1
    <3>2. Resolving(fw, r, open) \in [Texts -> FwServices]
      BY <3>1, ResolvingType
    <3> QED
      BY <1>4, <3>2
  <2>2. IsFiniteSet(D) /\ B \in SUBSET (SUBSET D)
    BY DEF IsDir
  <2> HIDE DEF B, D
  <2> QED
    BY <2>1, <2>2, FewerLeft
<1>6. \A open \in SUBSET D : r[open] \in [Texts -> FwServices]
  BY <1>5
<1>7. ASSUME NEW open \in SUBSET D, NEW n \in Texts
      PROVE  r[open][n] = IF n \in open THEN NoService
                          ELSE WithIncludes(r[open \cup {n}], ServiceDef(fw, n))
  <2>1. r[open] = Resolving(fw, r, open)
    BY <1>4
  <2> HIDE DEF D
  <2> QED
    BY <2>1, Zenon DEF Resolving
<1> QED
  BY <1>1, <1>6, <1>7

\* What is resolved is the same with fewer open.
LEMMA ResolvedAlike ==
  ASSUME NEW fw, IsDir(fw.services, FwServices), NEW open \in SUBSET DOMAIN fw.services,
         NEW few \in SUBSET open, NEW n \in Texts, ResolveService(fw)[open][n].ok
  PROVE  ResolveService(fw)[few][n] = ResolveService(fw)[open][n]
<1> DEFINE D == DOMAIN fw.services
           r == ResolveService(fw)
           def(m) == ServiceDef(fw, m)
           B == {o \in SUBSET D : \E f \in SUBSET o : \E m \in Texts : r[o][m].ok /\ r[f][m] # r[o][m]}
<1>1. \A o \in SUBSET D :
        /\ r[o] \in [Texts -> FwServices]
        /\ \A m \in Texts : r[o][m] = IF m \in o THEN NoService ELSE WithIncludes(r[o \cup {m}], def(m))
  BY ResolvesTo
<1>2. \A m \in Texts : /\ def(m) \in FwServices
                       /\ m \notin D => def(m).includes = << >>
  BY ServiceDefType
<1>3. ~NoService.ok
  BY DEF NoService
<1> HIDE DEF r, def
<1>4. ASSUME NEW o \in SUBSET D, \A m \in D \ o : o \cup {m} \notin B, NEW f \in SUBSET o,
             NEW m \in Texts, r[o][m].ok
      PROVE  r[f][m] = r[o][m]
  <2> DEFINE a == r[o \cup {m}]  b == r[f \cup {m}]  d == def(m)
  <2>1. m \notin o /\ m \notin f /\ f \in SUBSET D
    BY <1>1, <1>3, <1>4
  <2>2. r[o][m] = WithIncludes(a, d) /\ r[f][m] = WithIncludes(b, d)
    BY <1>1, <2>1
  <2>3. d \in FwServices
    BY <1>2
  <2>4. CASE m \in D
    <3>1. o \cup {m} \in SUBSET D /\ f \cup {m} \in SUBSET (o \cup {m}) /\ f \cup {m} \in SUBSET D
      BY <2>1, <2>4
    <3>2. a \in [Texts -> FwServices] /\ b \in [Texts -> FwServices]
      BY <1>1, <3>1
    <3>3. \A x \in Texts : a[x].ok => b[x] = a[x]
      <4>1. o \cup {m} \notin B
        BY <1>4, <2>1, <2>4
      <4> QED
        BY <3>1, <4>1
    <3>4. WithIncludes(a, d).ok
      BY <1>4, <2>2
    <3> HIDE DEF a, b, d
    <3>5. d.includes \in Seq(Texts)
      BY <2>3 DEF FwServices
    <3>6. \A j \in 1 .. Len(d.includes) : d.includes[j] \in Texts /\ a[d.includes[j]].ok
      <4>1. \A j \in 1 .. Len(d.includes) : a[d.includes[j]].ok
        <5> DEFINE p == [dport |-> 0, proto |-> 0]
        <5> HIDE DEF p
        <5> QED
          BY <2>3, <3>2, <3>4, IncludesOffer
      <4>2. \A j \in 1 .. Len(d.includes) : d.includes[j] \in Texts
        BY <3>5
      <4> QED
        BY <4>1, <4>2
    <3>7. \A j \in 1 .. Len(d.includes) : b[d.includes[j]] = a[d.includes[j]]
      BY <3>3, <3>6
    <3>8. WithIncludes(b, d) = WithIncludes(a, d)
      BY <2>3, <3>2, <3>7, IncludesAlike
    <3> QED
      BY <2>2, <3>8
  <2>5. CASE m \notin D
    <3>1. d.includes = << >>
      BY <1>2, <2>5
    <3> HIDE DEF a, b, d
    <3>2. WithIncludes(a, d) = d /\ WithIncludes(b, d) = d
      BY <3>1, WithoutIncludes
    <3> QED
      BY <2>2, <3>2
  <2> QED
    BY <2>4, <2>5
<1>5. B = {}
  <2>1. \A o \in SUBSET D : (\A m \in D \ o : o \cup {m} \notin B) => o \notin B
    <3> SUFFICES ASSUME NEW o \in SUBSET D, \A m \in D \ o : o \cup {m} \notin B,
                        NEW f \in SUBSET o, NEW m \in Texts, r[o][m].ok
                 PROVE  r[f][m] = r[o][m]
      OBVIOUS
    <3> HIDE DEF B
    <3> QED
      BY <1>4
  <2>2. IsFiniteSet(D) /\ B \in SUBSET (SUBSET D)
    BY DEF IsDir
  <2> HIDE DEF B, D
  <2> QED
    BY <2>1, <2>2, FewerLeft
<1>6. open \notin B
  BY <1>5
<1> QED
  BY <1>6 DEF r

\* What firewalld makes of a service on its own.
OwnHolds(fw, n, p) ==
  LET def == ServiceDef(fw, n)
      dst == IF p.v6 THEN def.dst6 ELSE def.dst4
  IN /\ HasPort(def.ports, p.dport, p.proto) \/ p.proto \in ToSet(def.protos)
     /\ IF dst = NoNet THEN def.dst4 = def.dst6 ELSE p.dst \in Block(dst)

\* What a service holds of by itself.
LEMMA OwnHoldsIs ==
  ASSUME NEW fw, NEW n, NEW p
  PROVE  OwnHolds(fw, n, p) <=> Offers(ServiceDef(fw, n), p) /\ DstOk(ServiceDef(fw, n), p)
BY DEF OwnHolds, Offers, DstOk

\* A service holds of what it or one that it includes holds of.
LEMMA ServiceHoldsIs ==
  ASSUME NEW fw, IsDir(fw.services, FwServices), NEW p
  PROVE  /\ \A n \in Texts : ServiceHolds(fw, n, p) \in BOOLEAN
         /\ \A n \in Texts :
              LET incs == ServiceDef(fw, n).includes IN
              ServiceHolds(fw, n, p) <=> OwnHolds(fw, n, p) \/ \E k \in 1 .. Len(incs) : ServiceHolds(fw, incs[k], p)
<1> DEFINE def(n) == ServiceDef(fw, n)
           Step(h, n) == OwnHolds(fw, n, p) \/ \E k \in DOMAIN def(n).includes : h[def(n).includes[k]]
           R(h) == h = [n \in Texts |-> Step(h, n)]
           holds == CHOOSE h : R(h)
           Has(S, n) == OwnHolds(fw, n, p) \/ \E k \in DOMAIN def(n).includes : def(n).includes[k] \in S
           Closed == {S \in SUBSET Texts : \A n \in Texts : Has(S, n) => n \in S}
           L == {n \in Texts : \A S \in Closed : n \in S}
           g == [n \in Texts |-> n \in L]
<1>1. \A n : ServiceHolds(fw, n, p) = holds[n]
  BY DEF ServiceHolds, OwnHolds
<1>2. \A n \in Texts : DOMAIN def(n).includes = 1 .. Len(def(n).includes)
                       /\ \A k \in DOMAIN def(n).includes : def(n).includes[k] \in Texts
  <2> SUFFICES ASSUME NEW n \in Texts
               PROVE  DOMAIN def(n).includes = 1 .. Len(def(n).includes)
                      /\ \A k \in DOMAIN def(n).includes : def(n).includes[k] \in Texts
    OBVIOUS
  <2> DEFINE incs == def(n).includes
  <2>1. incs \in Seq(Texts)
    BY ServiceDefType DEF FwServices
  <2> HIDE DEF incs
  <2>2. DOMAIN incs = 1 .. Len(incs) /\ \A k \in DOMAIN incs : incs[k] \in Texts
    BY <2>1
  <2> QED
    BY <2>2 DEF incs
<1> HIDE DEF def
<1>3. ASSUME NEW n \in Texts, Has(L, n) PROVE n \in L
  <2> SUFFICES ASSUME NEW S \in Closed PROVE n \in S
    OBVIOUS
  <2>1. L \subseteq S
    OBVIOUS
  <2>2. Has(S, n)
    <3> HIDE DEF L, Closed
    <3> QED
      BY <1>3, <2>1
  <2> QED
    BY <2>2
<1>4. ASSUME NEW n \in L PROVE Has(L, n)
  <2> DEFINE S == {m \in L : Has(L, m)}
  <2>1. S \in Closed
    <3>1. ASSUME NEW m \in Texts, Has(S, m) PROVE m \in S
      <4>1. Has(L, m)
        <5>1. S \subseteq L
          OBVIOUS
        <5> HIDE DEF S, L
        <5> QED
          BY <3>1, <5>1
      <4>2. m \in L
        <5> HIDE DEF L, Has
        <5> QED
          BY <1>3, <4>1
      <4> HIDE DEF L
      <4> QED
        BY <4>1, <4>2
    <3>2. S \in SUBSET Texts
      OBVIOUS
    <3> HIDE DEF S, Has
    <3> QED
      BY <3>1, <3>2
  <2>2. n \in S
    <3> HIDE DEF S, Closed
    <3> QED
      BY <2>1
  <2> HIDE DEF Has, L
  <2> QED
    BY <2>2
<1>5. R(g)
  <2>1. ASSUME NEW n \in Texts PROVE (n \in L) = Step(g, n)
    <3>1. n \in L <=> Has(L, n)
      <4> HIDE DEF L, Has
      <4> QED
        BY <1>3, <1>4
    <3>2. \A k \in DOMAIN def(n).includes : g[def(n).includes[k]] = (def(n).includes[k] \in L)
      <4> HIDE DEF L
      <4> QED
        BY <1>2
    <3>3. Has(L, n) <=> Step(g, n)
      <4> HIDE DEF L, g
      <4> QED
        BY <3>2
    <3>4. (n \in L) \in BOOLEAN /\ Step(g, n) \in BOOLEAN
      <4> HIDE DEF L, g
      <4> QED
        OBVIOUS
    <3> HIDE DEF L, Has, g, Step
    <3> QED
      BY <3>1, <3>3, <3>4
  <2> HIDE DEF L, Step
  <2> QED
    BY <2>1, Zenon
<1>6. R(holds)
  <2>1. \E h : R(h)
    <3> HIDE DEF R
    <3> QED
      BY <1>5
  <2> HIDE DEF R
  <2> QED
    BY <2>1
<1> HIDE DEF holds, L, g, Closed
<1>7. ASSUME NEW n \in Texts
      PROVE  /\ holds[n] \in BOOLEAN
             /\ holds[n] <=> OwnHolds(fw, n, p) \/ \E k \in 1 .. Len(def(n).includes) : holds[def(n).includes[k]]
  <2>1. holds[n] = Step(holds, n)
    <3> HIDE DEF Step
    <3> QED
      BY <1>6, Zenon
  <2> QED
    BY <1>2, <2>1
<1> QED
  BY <1>1, <1>7 DEF def

\* A service that is resolved says what it and those that it includes say.
LEMMA ResolvedHolds ==
  ASSUME NEW fw, IsDir(fw.services, FwServices), OneDestination(fw), NEW p,
         NEW name \in Texts, Resolved(fw, name).ok
  PROVE  ServiceHolds(fw, name, p) <=> Offers(Resolved(fw, name), p) /\ DstOk(Resolved(fw, name), p)
<1> DEFINE D == DOMAIN fw.services
           r == ResolveService(fw)
           def(m) == ServiceDef(fw, m)
           Sub(m, k) == def(m).includes[k]
           n(m) == Len(def(m).includes)
           Says2(d) == Offers(d, p) /\ DstOk(d, p)
           Own(m) == OwnHolds(fw, m, p)
           Holds(m) == ServiceHolds(fw, m, p)
           B == {o \in SUBSET D : \E m \in Texts : r[o][m].ok /\ ~(Holds(m) <=> Says2(r[o][m]))}
<1>1. \A o \in SUBSET D :
        /\ r[o] \in [Texts -> FwServices]
        /\ \A m \in Texts : r[o][m] = IF m \in o THEN NoService ELSE WithIncludes(r[o \cup {m}], def(m))
  BY ResolvesTo
<1>2. \A m \in Texts : /\ def(m) \in FwServices
                       /\ m \notin D => def(m).includes = << >>
                       /\ m \in D => def(m) \in Range(fw.services)
  <2> SUFFICES ASSUME NEW m \in Texts
               PROVE  /\ def(m) \in FwServices
                      /\ m \notin D => def(m).includes = << >>
                      /\ m \in D => def(m) \in Range(fw.services)
    OBVIOUS
  <2>1. m \in D => def(m) = fw.services[m] /\ fw.services[m] \in Range(fw.services)
    BY DEF ServiceDef, Range
  <2> QED
    BY <2>1, ServiceDefType
<1>3. \A m \in Texts : Own(m) <=> Says2(def(m))
  BY OwnHoldsIs
<1>4. \A m \in Texts : Holds(m) <=> Own(m) \/ \E k \in 1 .. n(m) : Holds(Sub(m, k))
  BY ServiceHoldsIs
<1>5. ~NoService.ok
  BY DEF NoService
<1>6. \A m : Resolved(fw, m) = r[{}][m]
  BY DEF Resolved
<1>7. \A m \in Texts : \A k \in 1 .. n(m) : Sub(m, k) \in Texts
  <2> SUFFICES ASSUME NEW m \in Texts PROVE \A k \in 1 .. n(m) : Sub(m, k) \in Texts
    OBVIOUS
  <2> DEFINE incs == def(m).includes
  <2>1. incs \in Seq(Texts)
    <3> HIDE DEF def
    <3> QED
      BY <1>2 DEF FwServices
  <2> HIDE DEF incs
  <2>2. \A k \in 1 .. Len(incs) : incs[k] \in Texts
    BY <2>1
  <2> QED
    BY <2>2 DEF incs
<1>8. \A m \in D : \A k \in 1 .. n(m) :
        /\ r[{}][Sub(m, k)].dst4 = def(m).dst4 /\ r[{}][Sub(m, k)].dst6 = def(m).dst6
  <2> SUFFICES ASSUME NEW m \in D, NEW k \in 1 .. n(m)
               PROVE  r[{}][Sub(m, k)].dst4 = def(m).dst4 /\ r[{}][Sub(m, k)].dst6 = def(m).dst6
    OBVIOUS
  <2>1. m \in Texts
    BY DEF IsDir
  <2>2. def(m) \in Range(fw.services)
    <3> HIDE DEF def, D
    <3> QED
      BY <1>2, <2>1
  <2>3. k \in DOMAIN def(m).includes
    <3> DEFINE incs == def(m).includes
    <3>1. incs \in Seq(Texts)
      <4> HIDE DEF def
      <4> QED
        BY <1>2, <2>1 DEF FwServices
    <3>2. k \in 1 .. Len(incs)
      OBVIOUS
    <3> HIDE DEF incs
    <3>3. k \in DOMAIN incs
      BY <3>1, <3>2
    <3> QED
      BY <3>3 DEF incs
  <2> HIDE DEF def
  <2>4. /\ Resolved(fw, def(m).includes[k]).dst4 = def(m).dst4
        /\ Resolved(fw, def(m).includes[k]).dst6 = def(m).dst6
    BY <2>2, <2>3, Zenon DEF OneDestination
  <2> QED
    BY <1>6, <2>4
<1> DEFINE ok(o, m) == r[o][m].ok
<1>9. \A o \in SUBSET D : \A m \in Texts : ok(o, m) => r[o][m] = r[{}][m]
  <2> SUFFICES ASSUME NEW o \in SUBSET D, NEW m \in Texts, ok(o, m) PROVE r[o][m] = r[{}][m]
    OBVIOUS
  <2>1. {} \in SUBSET o
    OBVIOUS
  <2> QED
    BY <2>1, ResolvedAlike
<1> HIDE DEF r, def
<1>10. ASSUME NEW o \in SUBSET D, \A m \in D \ o : o \cup {m} \notin B, NEW m \in Texts, r[o][m].ok
       PROVE  Holds(m) <=> Says2(r[o][m])
  <2> DEFINE a == r[o \cup {m}]  d == def(m)  incs == d.includes  w == r[o][m]
  <2>1. m \notin o
    BY <1>1, <1>5, <1>10
  <2>2. w = WithIncludes(a, d) /\ d \in FwServices
    BY <1>1, <1>2, <2>1
  <2>3. CASE m \in D
    <3>1. o \cup {m} \in SUBSET D /\ o \cup {m} \notin B
      BY <1>10, <2>1, <2>3
    <3>2. a \in [Texts -> FwServices] /\ \A x \in Texts : a[x].ok => (Holds(x) <=> Says2(a[x])) /\ a[x] = r[{}][x]
      <4>1. a \in [Texts -> FwServices]
        BY <1>1, <3>1
      <4>2. \A x \in Texts : a[x].ok => (Holds(x) <=> Says2(a[x]))
        <5> HIDE DEF Holds, Says2
        <5> QED
          BY <3>1
      <4>3. \A x \in Texts : a[x].ok => a[x] = r[{}][x]
        BY <1>9, <3>1
      <4> QED
        BY <4>1, <4>2, <4>3
    <3>3. w.ok
      BY <1>10
    <3>4. /\ \A k \in 1 .. n(m) : Sub(m, k) \in Texts
          /\ \A k \in 1 .. n(m) : r[{}][Sub(m, k)].dst4 = d.dst4 /\ r[{}][Sub(m, k)].dst6 = d.dst6
      BY <1>7, <1>8, <2>3
    <3>5. Holds(m) <=> Says2(d) \/ \E k \in 1 .. n(m) : Holds(Sub(m, k))
      BY <1>3, <1>4
    <3> DEFINE l == Len(incs)
    <3>6. n(m) = l /\ \A k : Sub(m, k) = incs[k]
      OBVIOUS
    <3> HIDE DEF n, Sub, Holds, Says2, a, d, w, incs, l
    <3>7. /\ w.ok => /\ \A j \in 1 .. l : a[incs[j]].ok
                     /\ (\A j \in 1 .. l : a[incs[j]].dst4 = d.dst4 /\ a[incs[j]].dst6 = d.dst6)
                        => w.dst4 = d.dst4 /\ w.dst6 = d.dst6
          /\ Offers(w, p) <=> Offers(d, p) \/ \E j \in 1 .. l : Offers(a[incs[j]], p)
      BY <2>2, <3>2, IncludesOffer DEF l, incs
    <3>8. \A j \in 1 .. l : /\ incs[j] \in Texts /\ a[incs[j]].ok
                            /\ a[incs[j]].dst4 = d.dst4 /\ a[incs[j]].dst6 = d.dst6
                            /\ Holds(incs[j]) <=> Says2(a[incs[j]])
      <4> SUFFICES ASSUME NEW j \in 1 .. l
                   PROVE  /\ incs[j] \in Texts /\ a[incs[j]].ok
                          /\ a[incs[j]].dst4 = d.dst4 /\ a[incs[j]].dst6 = d.dst6
                          /\ Holds(incs[j]) <=> Says2(a[incs[j]])
        OBVIOUS
      <4>1. incs[j] \in Texts /\ a[incs[j]].ok
        BY <3>3, <3>4, <3>6, <3>7
      <4>2. a[incs[j]] = r[{}][incs[j]] /\ (Holds(incs[j]) <=> Says2(a[incs[j]]))
        BY <3>2, <4>1
      <4>3. r[{}][incs[j]].dst4 = d.dst4 /\ r[{}][incs[j]].dst6 = d.dst6
        BY <3>4, <3>6
      <4> QED
        BY <4>1, <4>2, <4>3
    <3>9. w.dst4 = d.dst4 /\ w.dst6 = d.dst6
      BY <3>3, <3>7, <3>8
    <3>10. /\ DstOk(w, p) <=> DstOk(d, p)
           /\ \A j \in 1 .. l : DstOk(a[incs[j]], p) <=> DstOk(d, p)
      BY <3>8, <3>9 DEF DstOk
    <3>11. Holds(m) <=> Says2(d) \/ \E j \in 1 .. l : Says2(a[incs[j]])
      BY <3>5, <3>6, <3>8
    <3>12. Holds(m) <=> (Offers(d, p) \/ \E j \in 1 .. l : Offers(a[incs[j]], p)) /\ DstOk(d, p)
      BY <3>10, <3>11 DEF Says2
    <3> QED
      BY <3>7, <3>10, <3>12 DEF Says2, w
  <2>4. CASE m \notin D
    <3>1. incs = << >> /\ n(m) = 0
      BY <1>2, <2>4
    <3>2. Holds(m) <=> Says2(d)
      <4>1. \A k : k \notin 1 .. n(m)
        BY <3>1
      <4> HIDE DEF n, Holds, Own, Says2
      <4> QED
        BY <1>3, <1>4, <4>1
    <3> HIDE DEF a, d
    <3>3. w = d
      BY <2>2, <3>1, WithoutIncludes
    <3> HIDE DEF w, Holds, Says2
    <3> QED
      BY <3>2, <3>3 DEF w
  <2> QED
    BY <2>3, <2>4
<1>11. B = {}
  <2>1. \A o \in SUBSET D : (\A m \in D \ o : o \cup {m} \notin B) => o \notin B
    <3> SUFFICES ASSUME NEW o \in SUBSET D, \A m \in D \ o : o \cup {m} \notin B,
                        NEW m \in Texts, r[o][m].ok
                 PROVE  Holds(m) <=> Says2(r[o][m])
      OBVIOUS
    <3> HIDE DEF B, Holds, Says2
    <3> QED
      BY <1>10
  <2>2. IsFiniteSet(D) /\ B \in SUBSET (SUBSET D)
    BY DEF IsDir
  <2> HIDE DEF B, D
  <2> QED
    BY <2>1, <2>2, FewerLeft
<1>12. {} \notin B /\ {} \in SUBSET D
  BY <1>11
<1>13. r[{}][name].ok
  BY <1>6
<1> HIDE DEF Holds, Says2, D
<1>14. Holds(name) <=> Says2(r[{}][name])
  BY <1>12, <1>13
<1>15. Says2(r[{}][name]) <=> Offers(Resolved(fw, name), p) /\ DstOk(Resolved(fw, name), p)
  BY <1>6 DEF Says2
<1> QED
  BY <1>14, <1>15 DEF Holds

-----------------------------------------------------------------------------
(* The elements of a zone. *)

\* A template that is about no protocol yet.
Bare(t) == View(t.rule).proto = "any" /\ View(t.rule).icmp = AnyType
           /\ View(t.rule).sports = {} /\ View(t.rule).dports = {}

\* What a template of another one's that differs in one condition is about.
Like(u, t) == /\ u.families \subseteq t.families /\ Ready(u) /\ View(u.rule).act = View(t.rule).act

\* Ports of the destination.
LEMMA DstPortsHit ==
  ASSUME NEW N, NEW t \in Ts(N), Ready(t), View(t.rule).sports = {}, View(t.rule).dports = {},
         NEW ports \in SUBSET FwPorts, ports # {}, NEW fw, NEW p
  PROVE  LET q == TDstPorts(t, ports) IN
         /\ q \in Ts(N) /\ Like(q, t) /\ q.families = t.families
         /\ View(q.rule) = [View(t.rule) EXCEPT !.dports = ports]
         /\ Hit(fw, q, p) <=> Hit(fw, t, p) /\ HasPort(ports, p.dport, p.proto)
<1> DEFINE q == TDstPorts(t, ports)  v == View(t.rule)  u == View(q.rule)
<1>0. ports \in SUBSET PortRanges
  BY DEF FwPorts
<1>a. /\ InPorts(ports, p.dport, p.proto) <=> HasPort(ports, p.dport, p.proto)
      /\ HasPort(ports, p.dport, p.proto) => p.proto \in {"tcp", "udp"}
  BY PortsHit
<1>b. InPorts({}, p.dport, p.proto)
  BY DEF InPorts
<1>1. q \in Ts(N) /\ u = [v EXCEPT !.dports = ports] /\ q.families = t.families /\ (Live(t.rule) => Live(q.rule))
  BY <1>0, TDstPortsType, TDstPortsView
<1>2. ViewFields(v)
  BY ViewIs
<1>3. Live(t.rule) /\ v.iif = AnyIface /\ v.src \in FwEnds /\ v.sports = {} /\ v.dports = {}
  BY DEF Ready
<1> HIDE DEF v, u
<1>4. /\ u.act = v.act /\ u.iif = v.iif /\ u.proto = v.proto /\ u.icmp = v.icmp
      /\ u.src = v.src /\ u.sports = v.sports /\ u.dst = v.dst /\ u.dports = ports
  BY <1>1, <1>2 DEF ViewFields
<1>5. Live(q.rule) /\ q.families \subseteq t.families
  BY <1>1, <1>3
<1>6. (Hit(fw, q, p) <=> p.v6 \in t.families /\ ViewHolds(fw, u, p))
      /\ (Hit(fw, t, p) <=> p.v6 \in t.families /\ ViewHolds(fw, v, p))
  BY <1>1 DEF Hit, u, v
<1> HIDE DEF q
<1>7. Like(q, t)
  BY <1>3, <1>4, <1>5 DEF Like, Ready, u, v
<1>c. v.sports \cup v.dports = {} /\ u.sports \cup u.dports # {}
  BY <1>3, <1>4
<1>8. ViewHolds(fw, u, p) <=> ViewHolds(fw, v, p) /\ HasPort(ports, p.dport, p.proto)
  BY <1>a, <1>b, <1>c, <1>3, <1>4, Zenon DEF ViewHolds
<1> QED
  BY <1>1, <1>6, <1>7, <1>8 DEF q, u, v

\* Ports of the source.
LEMMA SrcPortsHit ==
  ASSUME NEW N, NEW t \in Ts(N), Ready(t), View(t.rule).sports = {}, View(t.rule).dports = {},
         NEW ports \in SUBSET FwPorts, ports # {}, NEW fw, NEW p
  PROVE  LET q == TSrcPorts(t, ports) IN
         /\ q \in Ts(N) /\ Like(q, t) /\ q.families = t.families
         /\ View(q.rule) = [View(t.rule) EXCEPT !.sports = ports]
         /\ Hit(fw, q, p) <=> Hit(fw, t, p) /\ HasPort(ports, p.sport, p.proto)
<1> DEFINE q == TSrcPorts(t, ports)  v == View(t.rule)  u == View(q.rule)
<1>0. ports \in SUBSET PortRanges
  BY DEF FwPorts
<1>a. /\ InPorts(ports, p.sport, p.proto) <=> HasPort(ports, p.sport, p.proto)
      /\ HasPort(ports, p.sport, p.proto) => p.proto \in {"tcp", "udp"}
  BY PortsHit
<1>b. InPorts({}, p.sport, p.proto)
  BY DEF InPorts
<1>1. q \in Ts(N) /\ u = [v EXCEPT !.sports = ports] /\ q.families = t.families /\ (Live(t.rule) => Live(q.rule))
  BY <1>0, TSrcPortsType, TSrcPortsView
<1>2. ViewFields(v)
  BY ViewIs
<1>3. Live(t.rule) /\ v.iif = AnyIface /\ v.src \in FwEnds /\ v.sports = {} /\ v.dports = {}
  BY DEF Ready
<1> HIDE DEF v, u
<1>4. /\ u.act = v.act /\ u.iif = v.iif /\ u.proto = v.proto /\ u.icmp = v.icmp
      /\ u.src = v.src /\ u.dst = v.dst /\ u.dports = v.dports /\ u.sports = ports
  BY <1>1, <1>2 DEF ViewFields
<1>5. Live(q.rule) /\ q.families \subseteq t.families
  BY <1>1, <1>3
<1>6. (Hit(fw, q, p) <=> p.v6 \in t.families /\ ViewHolds(fw, u, p))
      /\ (Hit(fw, t, p) <=> p.v6 \in t.families /\ ViewHolds(fw, v, p))
  BY <1>1 DEF Hit, u, v
<1> HIDE DEF q
<1>7. Like(q, t)
  BY <1>3, <1>4, <1>5 DEF Like, Ready, u, v
<1>c. v.sports \cup v.dports = {} /\ u.sports \cup u.dports # {}
  BY <1>3, <1>4
<1>8. ViewHolds(fw, u, p) <=> ViewHolds(fw, v, p) /\ HasPort(ports, p.sport, p.proto)
  BY <1>a, <1>b, <1>c, <1>3, <1>4, Zenon DEF ViewHolds
<1> QED
  BY <1>1, <1>6, <1>7, <1>8 DEF q, u, v

\* A protocol, and a type of messages.
LEMMA ProtoHit ==
  ASSUME NEW N, NEW t \in Ts(N), Ready(t), View(t.rule).proto = "any", NEW x \in Texts, x # "any", NEW fw, NEW p
  PROVE  LET q == TProto(t, x) IN
         /\ q \in Ts(N) /\ Like(q, t) /\ q.families = t.families
         /\ View(q.rule) = [View(t.rule) EXCEPT !.proto = x]
         /\ Hit(fw, q, p) <=> Hit(fw, t, p) /\ p.proto = x
<1> DEFINE q == TProto(t, x)  v == View(t.rule)  u == View(q.rule)
<1>0. ProtoOk("any", p) /\ (ProtoOk(x, p) <=> p.proto = x)
  BY DEF ProtoOk
<1>1. q \in Ts(N) /\ u = [v EXCEPT !.proto = x] /\ q.families = t.families /\ (Live(t.rule) => Live(q.rule))
  BY <1>0, TProtoType, TProtoView
<1>2. ViewFields(v)
  BY ViewIs
<1>3. Live(t.rule) /\ v.iif = AnyIface /\ v.src \in FwEnds /\ v.proto = "any"
  BY DEF Ready
<1> HIDE DEF v, u
<1>4. /\ u.act = v.act /\ u.iif = v.iif /\ u.icmp = v.icmp /\ u.src = v.src
      /\ u.sports = v.sports /\ u.dst = v.dst /\ u.dports = v.dports /\ u.proto = x
  BY <1>1, <1>2 DEF ViewFields
<1>5. Live(q.rule) /\ q.families \subseteq t.families
  BY <1>1, <1>3
<1>6. (Hit(fw, q, p) <=> p.v6 \in t.families /\ ViewHolds(fw, u, p))
      /\ (Hit(fw, t, p) <=> p.v6 \in t.families /\ ViewHolds(fw, v, p))
  BY <1>1 DEF Hit, u, v
<1> HIDE DEF q
<1>7. Like(q, t)
  BY <1>3, <1>4, <1>5 DEF Like, Ready, u, v
<1>8. ViewHolds(fw, u, p) <=> ViewHolds(fw, v, p) /\ p.proto = x
  BY <1>0, <1>3, <1>4, Zenon DEF ViewHolds
<1> QED
  BY <1>1, <1>6, <1>7, <1>8 DEF q, u, v

\* A type of messages.
LEMMA TypeHit ==
  ASSUME NEW N, NEW t \in Ts(N), Ready(t), View(t.rule).icmp = AnyType, NEW x \in Int, x # AnyType, NEW fw, NEW p
  PROVE  LET q == TIcmp(t, x) IN
         /\ q \in Ts(N) /\ Like(q, t) /\ q.families = t.families
         /\ View(q.rule) = [View(t.rule) EXCEPT !.icmp = x]
         /\ Hit(fw, q, p) <=> Hit(fw, t, p) /\ p.icmp = x
<1> DEFINE q == TIcmp(t, x)  v == View(t.rule)  u == View(q.rule)
<1>0. TypeOk(AnyType, p) /\ (TypeOk(x, p) <=> p.icmp = x)
  BY DEF TypeOk
<1>1. q \in Ts(N) /\ u = [v EXCEPT !.icmp = x] /\ q.families = t.families /\ (Live(t.rule) => Live(q.rule))
  BY <1>0, TIcmpType, TIcmpView
<1>2. ViewFields(v)
  BY ViewIs
<1>3. Live(t.rule) /\ v.iif = AnyIface /\ v.src \in FwEnds /\ v.icmp = AnyType
  BY DEF Ready
<1> HIDE DEF v, u
<1>4. /\ u.act = v.act /\ u.iif = v.iif /\ u.proto = v.proto /\ u.src = v.src
      /\ u.sports = v.sports /\ u.dst = v.dst /\ u.dports = v.dports /\ u.icmp = x
  BY <1>1, <1>2 DEF ViewFields
<1>5. Live(q.rule) /\ q.families \subseteq t.families
  BY <1>1, <1>3
<1>6. (Hit(fw, q, p) <=> p.v6 \in t.families /\ ViewHolds(fw, u, p))
      /\ (Hit(fw, t, p) <=> p.v6 \in t.families /\ ViewHolds(fw, v, p))
  BY <1>1 DEF Hit, u, v
<1> HIDE DEF q
<1>7. Like(q, t)
  BY <1>3, <1>4, <1>5 DEF Like, Ready, u, v
<1>8. ViewHolds(fw, u, p) <=> ViewHolds(fw, v, p) /\ p.icmp = x
  BY <1>0, <1>3, <1>4, Zenon DEF ViewHolds
<1> QED
  BY <1>1, <1>6, <1>7, <1>8 DEF q, u, v

\* A protocol for the families that have it.
LEMMA OfProtoHit ==
  ASSUME NEW N, NEW t \in Ts(N), Ready(t), View(t.rule).proto = "any", NEW x, x \in DOMAIN FwProtos,
         NEW fw, NEW p, OwnProto(p)
  PROVE  LET q == OfProto(t, x) IN
         /\ q \in Ts(N) /\ Like(q, t) /\ View(q.rule) = [View(t.rule) EXCEPT !.proto = x]
         /\ Hit(fw, q, p) <=> Hit(fw, t, p) /\ p.proto = x
<1> DEFINE u == TProto(t, x)  F == u.families \cap FwProtos[x]  q == TFam(u, F)
<1>0. OfProto(t, x) = q
  BY DEF OfProto, TFam, TProto
<1>1. x \in Texts /\ FwProtos[x] \in SUBSET Both /\ x # "any"
  <2>1. x # "any"
    BY DEF FwProtos
  <2> QED
    BY <2>1, FwProtosType
<1>2. /\ u \in Ts(N) /\ Like(u, t) /\ u.families = t.families
      /\ View(u.rule) = [View(t.rule) EXCEPT !.proto = x]
      /\ Hit(fw, u, p) <=> Hit(fw, t, p) /\ p.proto = x
  BY <1>1, ProtoHit
<1>a. p.proto = x => p.v6 \in FwProtos[x]
  BY DEF OwnProto
<1> HIDE DEF u
<1>3. F \in SUBSET Both /\ F = t.families \cap FwProtos[x]
  BY <1>1, <1>2
<1> HIDE DEF F
<1>4. q \in Ts(N) /\ q.rule = u.rule /\ q.families = F
  BY <1>2, <1>3, TFamType, TFamView
<1> HIDE DEF q
<1>5. Like(q, t)
  BY <1>2, <1>3, <1>4 DEF Like, Ready
<1>6. Hit(fw, q, p) <=> p.v6 \in F /\ Hit(fw, u, p)
  BY <1>2, <1>3, <1>4 DEF Hit
<1> QED
  BY <1>0, <1>a, <1>2, <1>3, <1>4, <1>5, <1>6 DEF Hit

\* A rich rule without its condition.
LEMMA RichTemplateHits ==
  ASSUME NEW fw, NEW e \in FwElems, RichFits(fw, e), NEW p, p.v6 \in Both
  PROVE  LET q == RichTemplate(fw, e) IN
         /\ q \in Ts(SetNames(fw)) /\ Ready(q) /\ Bare(q) /\ q.families = RichFamilies(fw, e)
         /\ View(q.rule).act = FwVerdicts[e.verdict]
         /\ Hit(fw, q, p) <=> /\ p.v6 \in e.families
                              /\ EndHolds(fw, e.src, p.src, p.v6) /\ EndHolds(fw, e.dst, p.dst, p.v6)
<1> DEFINE N == SetNames(fw)
           verdict == FwVerdicts[e.verdict]
           families == RichFamilies(fw, e)
           plain == Template(verdict, families)
           log == IF e.log THEN "log-all" ELSE None
           t1 == TSrcNet(plain, e.src.net)
           t2 == TSrcSet(t1, e.src.set)
           t3 == TDstNet(t2, e.dst.net)
           t4 == TDstSet(t3, e.dst.set)
           q == RichTemplate(fw, e)
           v == View(q.rule)
           src == e.src
           dst == e.dst
<1>1. e.src \in FwEnds /\ e.dst \in FwEnds /\ e.families \in SUBSET Both
  BY DEF FwElems, FwElemFields
<1>2. e.verdict \in DOMAIN FwVerdicts /\ EndFits(fw, e.src) /\ EndFits(fw, e.dst)
  BY DEF RichFits
<1>3. verdict \in Texts
  <2>1. verdict \in {"allow", "deny", "reject"}
    BY <1>2 DEF FwVerdicts
  <2> HIDE DEF verdict
  <2> QED
    BY <2>1, TextsAssumption
<1>4. families \in SUBSET Both
      /\ (p.v6 \in families <=> p.v6 \in e.families /\ p.v6 \in EndFamilies(fw, e.src) /\ p.v6 \in EndFamilies(fw, e.dst))
  BY <1>1 DEF RichFamilies
<1>5. log \in Texts
  BY TextsAssumption
<1>6. q = TLog(t4, log)
  BY DEF RichTemplate, TLog, TSrcNet, TSrcSet, TDstNet, TDstSet
<1>7. /\ e.src.net \in Nets \cup {NoNet} /\ e.src.set \in Texts /\ e.src.set \in N \cup {NoSet}
      /\ e.dst.net \in Nets \cup {NoNet} /\ e.dst.set \in Texts /\ e.dst.set \in N \cup {NoSet}
  <2> HIDE DEF N
  <2> QED
    BY <1>1, <1>2, EndParts DEF N
<1>e. src = [net |-> e.src.net, set |-> e.src.set] /\ dst = [net |-> e.dst.net, set |-> e.dst.set]
  BY <1>1 DEF FwEnds
<1> HIDE DEF N, verdict, families, log, q
<1>8. plain \in Ts(N) /\ plain.families = families /\ Live(plain.rule)
      /\ View(plain.rule) = [act |-> verdict, iif |-> AnyIface, proto |-> "any", icmp |-> AnyType,
                             src |-> AnyEnd, sports |-> {}, dst |-> AnyEnd, dports |-> {}]
  BY <1>3, <1>4, TemplateType, TemplateView
<1> DEFINE s1 == [AnyEnd EXCEPT !.net = e.src.net]  d1 == [AnyEnd EXCEPT !.net = e.dst.net]
           V(s, d) == [act |-> verdict, iif |-> AnyIface, proto |-> "any", icmp |-> AnyType,
                       src |-> s, sports |-> {}, dst |-> d, dports |-> {}]
<1> HIDE DEF plain
<1>9. t1 \in Ts(N) /\ t1.families = families /\ Live(t1.rule) /\ View(t1.rule) = V(s1, AnyEnd)
  <2>1. t1 \in Ts(N) /\ t1.families = families /\ Live(t1.rule)
        /\ View(t1.rule) = [View(plain.rule) EXCEPT !.src = [View(plain.rule).src EXCEPT !.net = e.src.net]]
    BY <1>7, <1>8, TSrcNetType, TSrcNetView
  <2> HIDE DEF t1
  <2> QED
    BY <1>8, <2>1
<1> HIDE DEF t1
<1>s. [s1 EXCEPT !.set = e.src.set] = src /\ [d1 EXCEPT !.set = e.dst.set] = dst
  BY <1>e DEF AnyEnd
<1> HIDE DEF s1, d1, src, dst
<1>10. t2 \in Ts(N) /\ t2.families = families /\ Live(t2.rule) /\ View(t2.rule) = V(src, AnyEnd)
  <2>1. t2 \in Ts(N) /\ t2.families = families /\ Live(t2.rule)
        /\ View(t2.rule) = [View(t1.rule) EXCEPT !.src = [View(t1.rule).src EXCEPT !.set = e.src.set]]
    BY <1>7, <1>9, TSrcSetType, TSrcSetView
  <2> HIDE DEF t2
  <2> QED
    BY <1>9, <1>s, <2>1
<1> HIDE DEF t2
<1>11. t3 \in Ts(N) /\ t3.families = families /\ Live(t3.rule) /\ View(t3.rule) = V(src, d1)
  <2>1. t3 \in Ts(N) /\ t3.families = families /\ Live(t3.rule)
        /\ View(t3.rule) = [View(t2.rule) EXCEPT !.dst = [View(t2.rule).dst EXCEPT !.net = e.dst.net]]
    BY <1>7, <1>10, TDstNetType, TDstNetView
  <2> HIDE DEF t3
  <2> QED
    BY <1>10, <2>1 DEF d1
<1> HIDE DEF t3
<1>12. t4 \in Ts(N) /\ t4.families = families /\ Live(t4.rule) /\ View(t4.rule) = V(src, dst)
  <2>1. t4 \in Ts(N) /\ t4.families = families /\ Live(t4.rule)
        /\ View(t4.rule) = [View(t3.rule) EXCEPT !.dst = [View(t3.rule).dst EXCEPT !.set = e.dst.set]]
    BY <1>7, <1>11, TDstSetType, TDstSetView
  <2> HIDE DEF t4
  <2> QED
    BY <1>11, <1>s, <2>1
<1> HIDE DEF t4
<1>13. q \in Ts(N) /\ q.families = families /\ Live(q.rule) /\ v = V(src, dst)
  BY <1>5, <1>6, <1>12, TLogType, TLogView
<1>14. /\ v.act = verdict /\ v.iif = AnyIface /\ v.proto = "any" /\ v.icmp = AnyType /\ v.src = src
       /\ v.sports = {} /\ v.dst = dst /\ v.dports = {}
  BY <1>13
<1> HIDE DEF v
<1>15. Ready(q) /\ Bare(q)
  BY <1>1, <1>13, <1>14 DEF Ready, Bare, v, src
<1>16. IfaceOk(AnyIface, p.iif) /\ ProtoOk("any", p) /\ TypeOk(AnyType, p)
       /\ InPorts({}, p.sport, p.proto) /\ InPorts({}, p.dport, p.proto)
  BY DEF IfaceOk, ProtoOk, TypeOk, InPorts
<1>17. ViewHolds(fw, v, p) <=> EndHolds(fw, src, p.src, p.v6) /\ EndHolds(fw, dst, p.dst, p.v6)
  <2>1. v.sports \cup v.dports = {}
    BY <1>14
  <2> QED
    BY <1>14, <1>16, <2>1, Zenon DEF ViewHolds
<1>18. Hit(fw, q, p) <=> p.v6 \in families /\ ViewHolds(fw, v, p)
  BY <1>13 DEF Hit, v
<1>19. /\ EndHolds(fw, e.src, p.src, p.v6) => p.v6 \in EndFamilies(fw, e.src)
       /\ EndHolds(fw, e.dst, p.dst, p.v6) => p.v6 \in EndFamilies(fw, e.dst)
  BY <1>1, <1>2, EndInFamily
<1>20. Hit(fw, q, p) <=> /\ p.v6 \in e.families
                         /\ EndHolds(fw, e.src, p.src, p.v6) /\ EndHolds(fw, e.dst, p.dst, p.v6)
  BY <1>4, <1>17, <1>18, <1>19 DEF src, dst
<1> QED
  BY <1>13, <1>14, <1>15, <1>20 DEF N, verdict, families, q, v

\* A rich rule with its condition.
LEMMA RichRuleHits ==
  ASSUME NEW fw, IsDir(fw.services, FwServices), OneDestination(fw), NEW e \in FwElems, RichFits(fw, e),
         NEW p, p.v6 \in Both, OwnProto(p)
  PROVE  LET q == RichRule(fw, e) IN
         /\ q \in Ts(SetNames(fw)) /\ Ready(q) /\ View(q.rule).act = FwVerdicts[e.verdict]
         /\ Hit(fw, q, p) <=> /\ p.v6 \in e.families
                              /\ EndHolds(fw, e.src, p.src, p.v6) /\ EndHolds(fw, e.dst, p.dst, p.v6)
                              /\ CondHolds(fw, e, e.match, p)
<1> DEFINE N == SetNames(fw)
           t == RichTemplate(fw, e)
           def == Resolved(fw, e.name)
           x == IF TRUE \in t.families THEN "icmpv6" ELSE "icmp"
           port == TProto(TDstPorts(t, e.ports), e.proto)
           sport == TProto(TSrcPorts(t, e.ports), e.proto)
           type == TIcmp(OfProto(t, x), e.icmp)
           ported == TDstPorts(t, def.ports)
           byProto == OfProto(t, e.proto)
           byDef == OfProto(t, def.protos[1])
           EndsHold == /\ p.v6 \in e.families
                       /\ EndHolds(fw, e.src, p.src, p.v6) /\ EndHolds(fw, e.dst, p.dst, p.v6)
           Cond == CondHolds(fw, e, e.match, p)
           Good(q) == q \in Ts(N) /\ Like(q, t) /\ (Hit(fw, q, p) <=> Hit(fw, t, p) /\ Cond)
           portHas == HasPort(e.ports, p.dport, p.proto)
           sportHas == HasPort(e.ports, p.sport, p.proto)
           icmpHas == p.proto = (IF p.v6 THEN "icmpv6" ELSE "icmp") /\ p.icmp = e.icmp
           serviceHas == ServiceHolds(fw, e.name, p)
<1>1. /\ e.proto \in Texts /\ e.ports \in SUBSET PortRanges /\ e.icmp \in Int /\ e.name \in Texts
      /\ e.match \in {None, "port", "source-port", "protocol", "icmp-type", "service"}
      /\ e.match \in {"port", "source-port"} => \E r \in e.ports : e.ports = {r} /\ r.proto = e.proto
      /\ e.match = "icmp-type" => e.icmp # AnyType
  <2>1. e \in FwElemFields
    BY DEF FwElems
  <2>2. /\ e.match \in {"port", "source-port"} => \E r \in e.ports : e.ports = {r} /\ r.proto = e.proto
        /\ e.match = "icmp-type" => e.icmp # AnyType
    BY DEF FwElems
  <2> QED
    BY <2>1, <2>2 DEF FwElemFields
<1>2. /\ e.match = "service" => RichService(def)
      /\ e.match = "protocol" => e.proto \in DOMAIN FwProtos
      /\ e.match \in {"port", "source-port"} => e.proto \in {"tcp", "udp"}
      /\ e.match = "icmp-type" => RichFamilies(fw, e) \in {{FALSE}, {TRUE}}
  BY DEF RichFits
<1>3. def \in FwServices
  BY <1>1, ResolvedType
<1>n. None \notin {"port", "source-port", "protocol", "icmp-type", "service"}
  BY DEF None
<1>4. /\ t \in Ts(N) /\ Ready(t) /\ Bare(t) /\ t.families = RichFamilies(fw, e)
      /\ View(t.rule).act = FwVerdicts[e.verdict]
      /\ Hit(fw, t, p) <=> EndsHold
  BY RichTemplateHits
<1>5. /\ e.match = "port"        => RichRule(fw, e) = port
      /\ e.match = "source-port" => RichRule(fw, e) = sport
      /\ e.match = "protocol"    => RichRule(fw, e) = byProto
      /\ e.match = "icmp-type"   => RichRule(fw, e) = type
      /\ e.match = "service"     => RichRule(fw, e) = IF def.ports = {} THEN byDef ELSE ported
      /\ e.match = None          => RichRule(fw, e) = t
  BY <1>n DEF RichRule, TProto, TDstPorts, TSrcPorts, TIcmp
<1>6. /\ e.match = "port"        => (Cond <=> portHas)
      /\ e.match = "source-port" => (Cond <=> sportHas)
      /\ e.match = "protocol"    => (Cond <=> p.proto = e.proto)
      /\ e.match = "icmp-type"   => (Cond <=> icmpHas)
      /\ e.match = "service"     => (Cond <=> serviceHas)
      /\ e.match = None          => Cond
  <2> HIDE DEF portHas, sportHas, serviceHas
  <2>1. CondHolds(fw, e, e.match, p) =
          CASE e.match = "port"        -> portHas
            [] e.match = "source-port" -> sportHas
            [] e.match = "protocol"    -> p.proto = e.proto
            [] e.match = "service"     -> serviceHas
            [] e.match = "icmp-type"   -> icmpHas
            [] OTHER                   -> TRUE
    BY DEF CondHolds, portHas, sportHas, serviceHas
  <2> HIDE DEF icmpHas
  <2> QED
    BY <1>n, <2>1
<1>7. /\ View(t.rule).proto = "any" /\ View(t.rule).icmp = AnyType
      /\ View(t.rule).sports = {} /\ View(t.rule).dports = {}
  BY <1>4 DEF Bare
<1>8. ViewFields(View(t.rule))
  BY ViewIs
<1> HIDE DEF t, N, EndsHold, Cond, def
<1>9. ASSUME e.match \in {"port", "source-port"}
      PROVE  /\ e.ports \in SUBSET FwPorts /\ e.ports # {} /\ e.proto \in Texts /\ e.proto # "any"
             /\ \A n : HasPort(e.ports, n, p.proto) => p.proto = e.proto
  <2>1. PICK r \in e.ports : e.ports = {r} /\ r.proto = e.proto
    BY <1>1, <1>9
  <2>2. e.proto \in {"tcp", "udp"}
    BY <1>2, <1>9
  <2>3. r \in PortRanges
    BY <1>1, <2>1
  <2>4. r \in FwPorts
    BY <2>1, <2>2, <2>3 DEF FwPorts
  <2>5. \A n : HasPort(e.ports, n, p.proto) => p.proto = e.proto
    BY <2>1 DEF HasPort
  <2> QED
    BY <1>1, <2>1, <2>2, <2>4, <2>5
<1>10. e.match = "port" => Good(port)
  <2> SUFFICES ASSUME e.match = "port" PROVE Good(port)
    OBVIOUS
  <2> DEFINE a == TDstPorts(t, e.ports)
  <2>1. /\ a \in Ts(N) /\ Like(a, t) /\ View(a.rule) = [View(t.rule) EXCEPT !.dports = e.ports]
        /\ Hit(fw, a, p) <=> Hit(fw, t, p) /\ HasPort(e.ports, p.dport, p.proto)
    BY <1>4, <1>7, <1>9, DstPortsHit
  <2>2. Ready(a) /\ View(a.rule).proto = "any"
    BY <1>7, <1>8, <2>1 DEF Like, ViewFields
  <2> HIDE DEF a
  <2>3. /\ TProto(a, e.proto) \in Ts(N) /\ Like(TProto(a, e.proto), a)
        /\ Hit(fw, TProto(a, e.proto), p) <=> Hit(fw, a, p) /\ p.proto = e.proto
    BY <1>9, <2>1, <2>2, ProtoHit
  <2> QED
    BY <1>6, <1>9, <2>1, <2>3 DEF a, Like
<1>11. e.match = "source-port" => Good(sport)
  <2> SUFFICES ASSUME e.match = "source-port" PROVE Good(sport)
    OBVIOUS
  <2> DEFINE a == TSrcPorts(t, e.ports)
  <2>1. /\ a \in Ts(N) /\ Like(a, t) /\ View(a.rule) = [View(t.rule) EXCEPT !.sports = e.ports]
        /\ Hit(fw, a, p) <=> Hit(fw, t, p) /\ HasPort(e.ports, p.sport, p.proto)
    BY <1>4, <1>7, <1>9, SrcPortsHit
  <2>2. Ready(a) /\ View(a.rule).proto = "any"
    BY <1>7, <1>8, <2>1 DEF Like, ViewFields
  <2> HIDE DEF a
  <2>3. /\ TProto(a, e.proto) \in Ts(N) /\ Like(TProto(a, e.proto), a)
        /\ Hit(fw, TProto(a, e.proto), p) <=> Hit(fw, a, p) /\ p.proto = e.proto
    BY <1>9, <2>1, <2>2, ProtoHit
  <2> QED
    BY <1>6, <1>9, <2>1, <2>3 DEF a, Like
<1>a. ASSUME NEW y \in DOMAIN FwProtos
      PROVE  /\ OfProto(t, y) \in Ts(N) /\ Like(OfProto(t, y), t)
             /\ View(OfProto(t, y).rule) = [View(t.rule) EXCEPT !.proto = y]
             /\ Hit(fw, OfProto(t, y), p) <=> Hit(fw, t, p) /\ p.proto = y
  <2>1. t \in Ts(N)
    BY <1>4
  <2>2. Ready(t)
    BY <1>4
  <2>3. View(t.rule).proto = "any"
    BY <1>7
  <2>4. OwnProto(p) /\ y \in DOMAIN FwProtos
    OBVIOUS
  <2> DEFINE q == OfProto(t, y)
  <2>5. /\ q \in Ts(N) /\ Like(q, t) /\ View(q.rule) = [View(t.rule) EXCEPT !.proto = y]
        /\ Hit(fw, q, p) <=> Hit(fw, t, p) /\ p.proto = y
    BY <2>1, <2>2, <2>3, <2>4, OfProtoHit
  <2> QED
    BY <2>5
<1>12. e.match = "protocol" => Good(byProto)
  <2> SUFFICES ASSUME e.match = "protocol" PROVE Good(byProto)
    OBVIOUS
  <2> DEFINE y == e.proto  q == OfProto(t, y)
  <2>1. y \in DOMAIN FwProtos /\ (Cond <=> p.proto = y)
    BY <1>2, <1>6
  <2> HIDE DEF y
  <2>3. q \in Ts(N) /\ Like(q, t) /\ (Hit(fw, q, p) <=> Hit(fw, t, p) /\ p.proto = y)
    BY <1>a, <2>1
  <2> HIDE DEF q
  <2>4. Good(q)
    BY <2>1, <2>3
  <2> QED
    BY <2>4 DEF q, y
<1>13. e.match = "icmp-type" => Good(type)
  <2> SUFFICES ASSUME e.match = "icmp-type" PROVE Good(type)
    OBVIOUS
  <2> DEFINE a == OfProto(t, x)
  <2>1. x \in DOMAIN FwProtos /\ x \in {"icmp", "icmpv6"}
    BY FwProtosType
  <2>2. t.families \in {{FALSE}, {TRUE}}
    BY <1>2, <1>4
  <2>3. p.v6 \in t.families => x = IF p.v6 THEN "icmpv6" ELSE "icmp"
    <3>1. CASE t.families = {FALSE}
      BY <3>1
    <3>2. CASE t.families = {TRUE}
      BY <3>2
    <3> QED
      BY <2>2, <3>1, <3>2
  <2>4. Hit(fw, t, p) => p.v6 \in t.families
    BY DEF Hit
  <2> HIDE DEF x
  <2>5. /\ a \in Ts(N) /\ Like(a, t) /\ View(a.rule) = [View(t.rule) EXCEPT !.proto = x]
        /\ Hit(fw, a, p) <=> Hit(fw, t, p) /\ p.proto = x
    BY <1>a, <2>1
  <2>6. Ready(a) /\ View(a.rule).icmp = AnyType
    BY <1>7, <1>8, <2>5 DEF Like, ViewFields
  <2> HIDE DEF a
  <2> DEFINE y == e.icmp  b == TIcmp(a, y)
  <2>b. y \in Int
    BY <1>1
  <2>c. y # AnyType
    BY <1>1
  <2>d. a \in Ts(N)
    BY <2>5
  <2> HIDE DEF y
  <2>7. /\ b \in Ts(N) /\ Like(b, a) /\ b.families = a.families
        /\ View(b.rule) = [View(a.rule) EXCEPT !.icmp = y]
        /\ Hit(fw, b, p) <=> Hit(fw, a, p) /\ p.icmp = y
    <3>1. Ready(a)
      BY <2>6
    <3>2. View(a.rule).icmp = AnyType
      BY <2>6
    <3> QED
      BY <2>b, <2>c, <2>d, <3>1, <3>2, TypeHit
  <2> HIDE DEF b
  <2>8. Hit(fw, b, p) <=> Hit(fw, t, p) /\ icmpHas
    BY <2>3, <2>4, <2>5, <2>7 DEF y
  <2> HIDE DEF icmpHas
  <2>9. Good(b)
    BY <1>6, <2>5, <2>7, <2>8 DEF Like
  <2> QED
    BY <2>9 DEF a, b, x, y
<1>14. e.match = "service" => Good(IF def.ports = {} THEN byDef ELSE ported)
  <2> SUFFICES ASSUME e.match = "service" PROVE Good(IF def.ports = {} THEN byDef ELSE ported)
    OBVIOUS
  <2>1. /\ def.ok /\ def.dst4 = NoNet /\ def.dst6 = NoNet
        /\ IF def.ports = {} THEN Len(def.protos) = 1 ELSE def.protos = <<>>
    BY <1>2 DEF RichService, ServiceFits
  <2>2. serviceHas <=> Offers(def, p) /\ DstOk(def, p)
    BY <1>1, <2>1, ResolvedHolds DEF def
  <2>3. DstOk(def, p)
    BY <2>1 DEF DstOk
  <2>4. Cond <=> Offers(def, p)
    <3> HIDE DEF serviceHas
    <3> QED
      BY <1>6, <2>2, <2>3
  <2>5. CASE def.ports = {}
    <3> DEFINE D == DOMAIN FwProtos  protos == def.protos
    <3>1. protos \in Seq(D)
      BY <1>3 DEF FwServices
    <3>2. Len(protos) = 1
      BY <2>1, <2>5
    <3>3. ~HasPort(def.ports, p.dport, p.proto)
      BY <2>5 DEF HasPort
    <3> HIDE DEF D, protos
    <3>4. protos[1] \in D /\ DOMAIN protos = {1}
      <4>1. \A k \in 1 .. Len(protos) : protos[k] \in D
        BY <3>1
      <4>3. 1 \in 1 .. Len(protos)
        BY <3>2
      <4>2. DOMAIN protos = {1}
        <5>1. DOMAIN protos = 1 .. 1
          BY <3>1, <3>2
        <5> QED
          BY <5>1
      <4> QED
        BY <4>1, <4>2, <4>3
    <3>5. p.proto \in ToSet(protos) <=> p.proto = protos[1]
      BY <3>4 DEF ToSet
    <3>6. Cond <=> p.proto = protos[1]
      BY <2>4, <3>3, <3>5 DEF Offers, protos
    <3> DEFINE y == protos[1]  q == OfProto(t, y)
    <3> HIDE DEF y
    <3>a. y \in DOMAIN FwProtos
      BY <3>4 DEF y, D
    <3>7. q \in Ts(N) /\ Like(q, t) /\ (Hit(fw, q, p) <=> Hit(fw, t, p) /\ p.proto = y)
      BY <1>a, <3>a
    <3>8. byDef = q
      BY DEF y, protos
    <3> HIDE DEF q
    <3>9. Good(q)
      BY <3>6, <3>7 DEF y
    <3> QED
      BY <2>5, <3>8, <3>9
  <2>6. CASE def.ports # {}
    <3>1. def.protos = <<>>
      BY <2>1, <2>6
    <3>2. p.proto \notin ToSet(def.protos)
      BY <3>1 DEF ToSet
    <3>3. Cond <=> HasPort(def.ports, p.dport, p.proto)
      BY <2>4, <3>2 DEF Offers
    <3>4. def.ports \in SUBSET FwPorts
      BY <1>3 DEF FwServices
    <3> DEFINE ports == def.ports  q == TDstPorts(t, ports)
    <3> HIDE DEF ports
    <3>5. q \in Ts(N) /\ Like(q, t) /\ (Hit(fw, q, p) <=> Hit(fw, t, p) /\ HasPort(ports, p.dport, p.proto))
      BY <1>4, <1>7, <2>6, <3>4, DstPortsHit DEF ports
    <3>6. ported = q
      BY DEF ports
    <3> HIDE DEF q
    <3>7. Good(q)
      BY <3>3, <3>5 DEF ports
    <3> QED
      BY <2>6, <3>6, <3>7
  <2> QED
    BY <2>5, <2>6
<1>15. e.match = None => Good(t)
  BY <1>4, <1>6 DEF Like
<1>16. Good(RichRule(fw, e))
  <2> HIDE DEF Good, port, sport, type, ported, byProto, byDef
  <2> QED
    BY <1>1, <1>5, <1>10, <1>11, <1>12, <1>13, <1>14, <1>15
<1> DEFINE q == RichRule(fw, e)
<1> HIDE DEF q
<1>17. q \in Ts(N) /\ Like(q, t) /\ (Hit(fw, q, p) <=> Hit(fw, t, p) /\ Cond)
  BY <1>16 DEF q
<1>18. q \in Ts(N) /\ Ready(q) /\ View(q.rule).act = FwVerdicts[e.verdict] /\ (Hit(fw, q, p) <=> EndsHold /\ Cond)
  BY <1>4, <1>17 DEF Like
<1> QED
  BY <1>18 DEF q, N, EndsHold, Cond

\* What an element gives.
GoodElem(fw, e, l, p) ==
  /\ l \in Seq(Ts(SetNames(fw)))
  /\ \A k \in 1 .. Len(l) : /\ Ready(l[k]) /\ View(l[k].rule).act \in {"allow", "deny", "reject"}
                            /\ View(l[k].rule).act # "allow" <=> Denies(e)
  /\ (\E k \in 1 .. Len(l) : Hit(fw, l[k], p)) <=> ElemHolds(fw, e, p)

\* An element with one template.
LEMMA OneGood ==
  ASSUME NEW fw, NEW e, NEW p, NEW q \in Ts(SetNames(fw)), Ready(q), View(q.rule).act \in {"allow", "deny", "reject"},
         View(q.rule).act # "allow" <=> Denies(e), Hit(fw, q, p) <=> ElemHolds(fw, e, p)
  PROVE  GoodElem(fw, e, <<q>>, p)
<1> DEFINE T == Ts(SetNames(fw))  l == <<q>>
<1>1. l \in Seq(T) /\ Len(l) = 1 /\ l[1] = q
  <2> HIDE DEF T
  <2>1. q \in T
    BY DEF T
  <2> QED
    BY <2>1
<1> HIDE DEF l
<1>2. \A k : k \in 1 .. Len(l) <=> k = 1
  BY <1>1
<1> QED
  BY <1>1, <1>2 DEF GoodElem, T, l

\* The templates of an element are about what it holds of (zoneElem).
LEMMA ElemHits ==
  ASSUME NEW fw, IsDir(fw.services, FwServices), OneDestination(fw), NEW e \in FwElems, ElemFits(fw, e),
         NEW p, p.v6 \in Both, OwnProto(p)
  PROVE  GoodElem(fw, e, ZoneElem(fw, e), p)
<1> DEFINE N == SetNames(fw)
           T == Ts(N)
           all == Template("allow", Both)
           def == Resolved(fw, e.name)
           port == TDstPorts(TProto(all, e.proto), e.ports)
           sport == TSrcPorts(TProto(all, e.proto), e.ports)
           proto == TProto(Template("allow", FwProtos[e.proto]), e.proto)
           service == EmitService(def)
           rich == RichRule(fw, e)
           Holds == ElemHolds(fw, e, p)
           portHas == HasPort(e.ports, p.dport, p.proto)
           sportHas == HasPort(e.ports, p.sport, p.proto)
           serviceHas == ServiceHolds(fw, e.name, p)
<1>1. /\ e.proto \in Texts /\ e.ports \in SUBSET PortRanges /\ e.name \in Texts /\ "allow" \in Texts
      /\ e.kind \in {"port", "source-port"} => \E r \in e.ports : e.ports = {r} /\ r.proto = e.proto
  <2>1. e \in FwElemFields
    BY DEF FwElems
  <2>2. e.kind \in {"port", "source-port"} => \E r \in e.ports : e.ports = {r} /\ r.proto = e.proto
    BY DEF FwElems
  <2> QED
    BY <2>1, <2>2, TextsAssumption DEF FwElemFields
<1>2. /\ e.kind \in {"port", "source-port"} => e.proto \in {"tcp", "udp"}
      /\ e.kind = "protocol" => e.proto \in DOMAIN FwProtos
      /\ e.kind = "service" => ServiceFits(def)
      /\ e.kind = "rule" => RichFits(fw, e)
  BY DEF ElemFits
<1>3. e.kind \in {"port", "source-port", "protocol", "service", "rule"}
  BY Zenon DEF ElemFits
<1>4. /\ e.kind = "port"        => ZoneElem(fw, e) = <<port>>
      /\ e.kind = "source-port" => ZoneElem(fw, e) = <<sport>>
      /\ e.kind = "protocol"    => ZoneElem(fw, e) = <<proto>>
      /\ e.kind = "service"     => ZoneElem(fw, e) = service
      /\ e.kind = "rule"        => ZoneElem(fw, e) = <<rich>>
  BY DEF ZoneElem, TProto, TDstPorts, TSrcPorts
<1>5. /\ e.kind = "port"        => (Holds <=> portHas)
      /\ e.kind = "source-port" => (Holds <=> sportHas)
      /\ e.kind = "protocol"    => (Holds <=> p.proto = e.proto)
      /\ e.kind = "service"     => (Holds <=> serviceHas)
  <2> HIDE DEF portHas, sportHas, serviceHas
  <2>1. CondHolds(fw, e, e.kind, p) =
          CASE e.kind = "port"        -> portHas
            [] e.kind = "source-port" -> sportHas
            [] e.kind = "protocol"    -> p.proto = e.proto
            [] e.kind = "service"     -> serviceHas
            [] e.kind = "icmp-type"   -> p.proto = (IF p.v6 THEN "icmpv6" ELSE "icmp") /\ p.icmp = e.icmp
            [] OTHER                  -> TRUE
    BY DEF CondHolds, portHas, sportHas, serviceHas
  <2>2. e.kind # "rule" => (Holds <=> CondHolds(fw, e, e.kind, p))
    BY DEF ElemHolds
  <2> HIDE DEF Holds
  <2> QED
    BY <2>1, <2>2
<1>6. Denies(e) <=> e.kind = "rule" /\ e.verdict # "accept"
  BY DEF Denies
<1> DEFINE OpenFor(q) == /\ q \in Ts(N) /\ Ready(q) /\ View(q.rule).act = "allow"
                         /\ Hit(fw, q, p) <=> Holds
<1> HIDE DEF N, Holds, all, def
<1>7. ASSUME NEW q, OpenFor(q), e.kind # "rule" PROVE GoodElem(fw, e, <<q>>, p)
  <2>1. /\ q \in Ts(SetNames(fw)) /\ Ready(q) /\ View(q.rule).act = "allow" /\ ~Denies(e)
        /\ Hit(fw, q, p) <=> ElemHolds(fw, e, p)
    BY <1>6, <1>7 DEF N, Holds
  <2> QED
    BY <2>1, OneGood
<1>8. ASSUME e.kind \in {"port", "source-port"}
      PROVE  /\ e.ports \in SUBSET FwPorts /\ e.ports # {} /\ e.proto \in Texts /\ e.proto # "any"
             /\ \A n : HasPort(e.ports, n, p.proto) => p.proto = e.proto
  <2>1. PICK r \in e.ports : e.ports = {r} /\ r.proto = e.proto
    BY <1>1, <1>8
  <2>2. e.proto \in {"tcp", "udp"}
    BY <1>2, <1>8
  <2>3. r \in PortRanges
    BY <1>1, <2>1
  <2>4. r \in FwPorts
    BY <2>1, <2>2, <2>3 DEF FwPorts
  <2>5. \A n : HasPort(e.ports, n, p.proto) => p.proto = e.proto
    BY <2>1 DEF HasPort
  <2> QED
    BY <1>1, <2>1, <2>2, <2>4, <2>5
<1>9. /\ all \in Ts(N) /\ Ready(all) /\ Hit(fw, all, p)
      /\ View(all.rule).act = "allow" /\ View(all.rule).proto = "any"
      /\ View(all.rule).sports = {} /\ View(all.rule).dports = {}
  <2>1. /\ View(all.rule) = [act |-> "allow", iif |-> AnyIface, proto |-> "any", icmp |-> AnyType,
                             src |-> AnyEnd, sports |-> {}, dst |-> AnyEnd, dports |-> {}]
        /\ Live(all.rule)
    BY TemplateView DEF all
  <2>2. all \in Ts(N)
    BY <1>1, TemplateType DEF all
  <2>3. Hit(fw, all, p)
    BY PlainHits DEF all
  <2>4. AnyEnd \in FwEnds
    <3>1. NoSet \in Texts
      BY TextsAssumption
    <3> QED
      BY <3>1 DEF AnyEnd, FwEnds
  <2> QED
    BY <2>1, <2>2, <2>3, <2>4 DEF Ready
<1>10. ASSUME e.kind \in {"port", "source-port"}
       PROVE  LET a == TProto(all, e.proto) IN
              /\ a \in Ts(N) /\ Ready(a) /\ View(a.rule).act = "allow"
              /\ View(a.rule).sports = {} /\ View(a.rule).dports = {}
              /\ Hit(fw, a, p) <=> p.proto = e.proto
  <2> DEFINE y == e.proto  a == TProto(all, y)
  <2>1. y \in Texts /\ y # "any"
    BY <1>8, <1>10
  <2> HIDE DEF y
  <2>2. /\ a \in Ts(N) /\ Like(a, all)
        /\ View(a.rule) = [View(all.rule) EXCEPT !.proto = y]
        /\ Hit(fw, a, p) <=> Hit(fw, all, p) /\ p.proto = y
    BY <1>9, <2>1, ProtoHit
  <2>3. ViewFields(View(all.rule))
    BY ViewIs
  <2> HIDE DEF a
  <2>4. View(a.rule).sports = View(all.rule).sports /\ View(a.rule).dports = View(all.rule).dports
    BY <2>2, <2>3 DEF ViewFields
  <2> QED
    BY <1>9, <2>2, <2>4 DEF Like, a, y
<1>11. CASE e.kind = "port"
  <2> DEFINE a == TProto(all, e.proto)
  <2>1. /\ a \in Ts(N) /\ Ready(a) /\ View(a.rule).act = "allow"
        /\ View(a.rule).sports = {} /\ View(a.rule).dports = {}
        /\ Hit(fw, a, p) <=> p.proto = e.proto
    BY <1>10, <1>11
  <2>2. e.ports \in SUBSET FwPorts /\ e.ports # {} /\ \A n : HasPort(e.ports, n, p.proto) => p.proto = e.proto
    BY <1>8, <1>11
  <2> HIDE DEF a
  <2> DEFINE q == TDstPorts(a, e.ports)
  <2>3. q \in Ts(N) /\ Like(q, a) /\ (Hit(fw, q, p) <=> Hit(fw, a, p) /\ portHas)
    BY <2>1, <2>2, DstPortsHit
  <2>4. port = q
    BY DEF a
  <2> HIDE DEF q
  <2>5. OpenFor(q)
    BY <1>5, <1>11, <2>1, <2>2, <2>3 DEF Like
  <2> QED
    BY <1>4, <1>7, <1>11, <2>4, <2>5
<1>12. CASE e.kind = "source-port"
  <2> DEFINE a == TProto(all, e.proto)
  <2>1. /\ a \in Ts(N) /\ Ready(a) /\ View(a.rule).act = "allow"
        /\ View(a.rule).sports = {} /\ View(a.rule).dports = {}
        /\ Hit(fw, a, p) <=> p.proto = e.proto
    BY <1>10, <1>12
  <2>2. e.ports \in SUBSET FwPorts /\ e.ports # {} /\ \A n : HasPort(e.ports, n, p.proto) => p.proto = e.proto
    BY <1>8, <1>12
  <2> HIDE DEF a
  <2> DEFINE q == TSrcPorts(a, e.ports)
  <2>3. q \in Ts(N) /\ Like(q, a) /\ (Hit(fw, q, p) <=> Hit(fw, a, p) /\ sportHas)
    BY <2>1, <2>2, SrcPortsHit
  <2>4. sport = q
    BY DEF a
  <2> HIDE DEF q
  <2>5. OpenFor(q)
    BY <1>5, <1>12, <2>1, <2>2, <2>3 DEF Like
  <2> QED
    BY <1>4, <1>7, <1>12, <2>4, <2>5
<1>13. AnyEnd \in FwEnds
  <2>1. NoSet \in Texts
    BY TextsAssumption
  <2> QED
    BY <2>1 DEF AnyEnd, FwEnds
<1>14. CASE e.kind = "protocol"
  <2> DEFINE y == e.proto  q == TProto(Template("allow", FwProtos[y]), y)
  <2>1. y \in DOMAIN FwProtos
    BY <1>2, <1>14
  <2> HIDE DEF y
  <2>2. q \in Ts(N) /\ Opens(q) /\ (Hit(fw, q, p) <=> p.proto = y)
    BY <2>1, ProtoTemplate
  <2>3. proto = q
    BY DEF y
  <2> HIDE DEF q
  <2>4. OpenFor(q)
    BY <1>5, <1>13, <1>14, <2>2 DEF Opens, Ready, y
  <2> QED
    BY <1>4, <1>7, <1>14, <2>3, <2>4
<1>15. CASE e.kind = "service"
  <2>1. def.ok /\ def \in FwServices
    BY <1>1, <1>2, <1>15, ResolvedType DEF ServiceFits, def
  <2>2. serviceHas <=> Offers(def, p) /\ DstOk(def, p)
    BY <1>1, <2>1, ResolvedHolds DEF def
  <2>3. /\ service \in Seq(Ts(N)) /\ \A k \in 1 .. Len(service) : Opens(service[k])
        /\ (\E k \in 1 .. Len(service) : Hit(fw, service[k], p)) <=> Offers(def, p) /\ DstOk(def, p)
    BY <2>1, EmitServiceHits DEF Offers
  <2> HIDE DEF service, serviceHas
  <2>4. \A k \in 1 .. Len(service) : Ready(service[k]) /\ View(service[k].rule).act = "allow"
    BY <1>13, <2>3 DEF Opens, Ready
  <2>5. (\E k \in 1 .. Len(service) : Hit(fw, service[k], p)) <=> Holds
    BY <1>5, <1>15, <2>2, <2>3
  <2>6. ~Denies(e) /\ ZoneElem(fw, e) = service
    BY <1>4, <1>6, <1>15
  <2> QED
    BY <2>3, <2>4, <2>5, <2>6 DEF GoodElem, N, Holds
<1>16. CASE e.kind = "rule"
  <2>1. RichFits(fw, e)
    BY <1>2, <1>16
  <2>2. /\ rich \in Ts(N) /\ Ready(rich) /\ View(rich.rule).act = FwVerdicts[e.verdict]
        /\ Hit(fw, rich, p) <=> /\ p.v6 \in e.families
                                /\ EndHolds(fw, e.src, p.src, p.v6) /\ EndHolds(fw, e.dst, p.dst, p.v6)
                                /\ CondHolds(fw, e, e.match, p)
    BY <2>1, RichRuleHits DEF N
  <2>3. Holds <=> /\ p.v6 \in e.families
                  /\ EndHolds(fw, e.src, p.src, p.v6) /\ EndHolds(fw, e.dst, p.dst, p.v6)
                  /\ CondHolds(fw, e, e.match, p)
    BY <1>16 DEF ElemHolds, Holds
  <2>4. e.verdict \in {"accept", "drop", "reject"}
    BY <2>1 DEF RichFits, FwVerdicts
  <2>5. FwVerdicts[e.verdict] \in {"allow", "deny", "reject"} /\ (FwVerdicts[e.verdict] # "allow" <=> e.verdict # "accept")
    BY <2>4 DEF FwVerdicts
  <2> HIDE DEF rich
  <2>6. /\ rich \in Ts(SetNames(fw)) /\ Ready(rich) /\ View(rich.rule).act \in {"allow", "deny", "reject"}
        /\ View(rich.rule).act # "allow" <=> Denies(e)
        /\ Hit(fw, rich, p) <=> ElemHolds(fw, e, p)
    BY <1>6, <1>16, <2>2, <2>3, <2>5 DEF N, Holds
  <2>7. GoodElem(fw, e, <<rich>>, p)
    BY <2>6, OneGood
  <2> QED
    BY <1>4, <1>16, <2>7
<1> QED
  BY <1>3, <1>11, <1>12, <1>14, <1>15, <1>16

-----------------------------------------------------------------------------
(* The templates of a zone, and its rules. *)

\* They are about what the elements of the zone hold of, in their order.
LEMMA TemplatesHits ==
  ASSUME NEW fw, IsDir(fw.services, FwServices), OneDestination(fw), NEW z, fw.zones[z] \in FwZones, ZoneFits(fw, z),
         NEW p, p.v6 \in Both, OwnProto(p)
  PROVE  LET ts == Templates(fw, z)
             N == SetNames(fw)
             elems == fw.zones[z].elems IN
         /\ ts \in Seq(Ts(N))
         /\ \A k \in 1 .. Len(ts) :
              /\ Ready(ts[k]) /\ View(ts[k].rule).act \in {"allow", "deny", "reject"}
              /\ Hit(fw, ts[k], p) =>
                   \E e \in ToSet(elems) : ElemHolds(fw, e, p) /\ (View(ts[k].rule).act # "allow" <=> Denies(e))
         /\ \A e \in ToSet(elems) : ElemHolds(fw, e, p) =>
              \E k \in 1 .. Len(ts) : Hit(fw, ts[k], p) /\ (View(ts[k].rule).act # "allow" <=> Denies(e))
         /\ ~DeniedLate(fw, z) => Sorted(ts, Ts(N), Denying(N))
<1> DEFINE elems == fw.zones[z].elems
           n == Len(elems)
           N == SetNames(fw)
           T == Ts(N)
           D == Denying(N)
           ts == Templates(fw, z)
           seqs == [i \in DOMAIN elems |-> ZoneElem(fw, elems[i])]
<1>1. elems \in Seq(FwElems)
  BY DEF FwZones
<1>2. \A i \in DOMAIN elems : ElemFits(fw, elems[i])
  BY Zenon DEF ZoneFits
<1>3. ts = FlattenSeq(seqs)
  BY DEF Templates
<1>a. ~DeniedLate(fw, z) => \A i, j \in DOMAIN elems : i < j /\ Denies(elems[j]) => Denies(elems[i])
  BY DEF DeniedLate
<1> HIDE DEF elems, ts
<1>4. n \in Nat /\ DOMAIN elems = 1 .. n /\ \A i \in 1 .. n : elems[i] \in FwElems
  BY <1>1
<1>5. ASSUME NEW i \in 1 .. n PROVE GoodElem(fw, elems[i], seqs[i], p)
  <2> DEFINE e == elems[i]
  <2>1. e \in FwElems /\ ElemFits(fw, e)
    BY <1>2, <1>4
  <2>2. seqs[i] = ZoneElem(fw, e)
    BY <1>4
  <2> HIDE DEF e, seqs
  <2>3. GoodElem(fw, e, ZoneElem(fw, e), p)
    BY <2>1, ElemHits
  <2> QED
    BY <2>2, <2>3 DEF e
<1>6. seqs = [i \in 1 .. n |-> seqs[i]]
  BY <1>4
<1> HIDE DEF seqs
<1>7. ASSUME NEW i \in 1 .. n PROVE seqs[i] \in Seq(T)
  BY <1>5 DEF GoodElem
<1>8. seqs \in Seq(Seq(T)) /\ Len(seqs) = n
  <2> HIDE DEF n, T
  <2> QED
    BY <1>4, <1>6, <1>7
<1>9. /\ ts \in Seq(T)
      /\ \A k \in 1 .. Len(ts) : \E i \in 1 .. n : \E h \in 1 .. Len(seqs[i]) : ts[k] = seqs[i][h]
      /\ \A i \in 1 .. n : \A h \in 1 .. Len(seqs[i]) : \E k \in 1 .. Len(ts) : ts[k] = seqs[i][h]
  <2> DEFINE q == FlattenSeq(seqs)
  <2>1. /\ q \in Seq(T)
        /\ \A k \in 1 .. Len(q) : \E j \in 1 .. Len(seqs) : \E h \in 1 .. Len(seqs[j]) : q[k] = seqs[j][h]
        /\ \A j \in 1 .. Len(seqs) : \A h \in 1 .. Len(seqs[j]) : \E k \in 1 .. Len(q) : q[k] = seqs[j][h]
    <3> HIDE DEF T
    <3>1. seqs \in Seq(Seq(T))
      BY <1>8
    <3> QED
      BY <3>1, FlatHas
  <2> HIDE DEF T, n, q
  <2>2. ts = q
    BY <1>3 DEF q
  <2> QED
    BY <1>8, <2>1, <2>2
<1>10. \A i \in 1 .. n : elems[i] \in ToSet(elems)
  BY <1>4 DEF ToSet
<1>11. ASSUME NEW k \in 1 .. Len(ts)
       PROVE  /\ Ready(ts[k]) /\ View(ts[k].rule).act \in {"allow", "deny", "reject"}
              /\ Hit(fw, ts[k], p) =>
                   \E e \in ToSet(elems) : ElemHolds(fw, e, p) /\ (View(ts[k].rule).act # "allow" <=> Denies(e))
  <2>1. PICK i \in 1 .. n : \E h \in 1 .. Len(seqs[i]) : ts[k] = seqs[i][h]
    BY <1>9
  <2>2. PICK h \in 1 .. Len(seqs[i]) : ts[k] = seqs[i][h]
    BY <2>1
  <2> DEFINE e == elems[i]
  <2>3. GoodElem(fw, e, seqs[i], p) /\ e \in ToSet(elems)
    BY <1>5, <1>10
  <2> HIDE DEF e
  <2> QED
    BY <2>2, <2>3 DEF GoodElem
<1>12. ASSUME NEW e \in ToSet(elems), ElemHolds(fw, e, p)
       PROVE  \E k \in 1 .. Len(ts) : Hit(fw, ts[k], p) /\ (View(ts[k].rule).act # "allow" <=> Denies(e))
  <2>1. PICK i \in 1 .. n : elems[i] = e
    BY <1>4 DEF ToSet
  <2>2. GoodElem(fw, e, seqs[i], p)
    BY <1>5, <2>1
  <2>3. PICK h \in 1 .. Len(seqs[i]) : Hit(fw, seqs[i][h], p)
    BY <1>12, <2>2 DEF GoodElem
  <2>4. View(seqs[i][h].rule).act # "allow" <=> Denies(e)
    BY <2>2 DEF GoodElem
  <2>5. PICK k \in 1 .. Len(ts) : ts[k] = seqs[i][h]
    BY <1>9
  <2> QED
    BY <2>3, <2>4, <2>5
<1>13. ASSUME ~DeniedLate(fw, z) PROVE Sorted(ts, T, D)
  <2>1. ASSUME NEW i \in 1 .. n, NEW a \in 1 .. Len(seqs[i])
        PROVE  seqs[i][a] \in D <=> Denies(elems[i])
    <3>1. seqs[i][a] \in T
      <4> HIDE DEF T
      <4>1. seqs[i] \in Seq(T)
        BY <1>7
      <4> QED
        BY <4>1
    <3>2. View(seqs[i][a].rule).act # "allow" <=> Denies(elems[i])
      BY <1>5 DEF GoodElem
    <3> QED
      BY <3>1, <3>2 DEF Denying
  <2>2. ASSUME NEW i \in 1 .. n PROVE Sorted(seqs[i], T, D)
    BY <2>1 DEF Sorted
  <2>3. ASSUME NEW i \in 1 .. n, NEW j \in 1 .. n, i < j,
               NEW a \in 1 .. Len(seqs[i]), NEW b \in 1 .. Len(seqs[j]), seqs[j][b] \in D
        PROVE  seqs[i][a] \in D
    BY <1>4, <1>13, <1>a, <2>1, <2>3
  <2> HIDE DEF T, D
  <2> QED
    BY <1>3, <1>8, <2>2, <2>3, FlatSorted
<1> QED
  BY <1>9, <1>11, <1>12, <1>13 DEF elems, n, T, D, N, ts

\* The rules of a zone are about that, in what its bindings have.
LEMMA ZoneHits ==
  ASSUME NEW fw, IsConfig(fw), ~FwRefused(fw), OneDestination(fw), NEW z \in ActiveZones(fw),
         NEW p, p.v6 \in Both, OwnProto(p)
  PROVE  LET l == EmitZone(fw, z)
             N == SetNames(fw)
             elems == fw.zones[z].elems IN
         /\ l \in Seq(Ts(N))
         /\ \A k \in 1 .. Len(l) :
              /\ Live(l[k].rule)
              /\ Hit(fw, l[k], p) =>
                   /\ AnyBinds(fw, Bindings(fw, z), p) /\ View(l[k].rule).act \in {"allow", "deny", "reject"}
                   /\ \E e \in ToSet(elems) : ElemHolds(fw, e, p) /\ (View(l[k].rule).act # "allow" <=> Denies(e))
         /\ AnyBinds(fw, Bindings(fw, z), p) =>
              \A e \in ToSet(elems) : ElemHolds(fw, e, p) =>
                \E k \in 1 .. Len(l) : Hit(fw, l[k], p) /\ (View(l[k].rule).act # "allow" <=> Denies(e))
         /\ ~DeniedLate(fw, z) => Sorted(l, Ts(N), Denying(N))
<1> DEFINE l == EmitZone(fw, z)
           ts == Templates(fw, z)
           N == SetNames(fw)
           T == Ts(N)
           D == Denying(N)
           bs == Bindings(fw, z)
           elems == fw.zones[z].elems
<1>1. ZoneFits(fw, z)
  BY Zenon DEF FwRefused
<1>2. z \in DOMAIN fw.zones /\ fw.zones[z] \in FwZones /\ IsDir(fw.services, FwServices)
  <2>1. z \in DOMAIN fw.zones
    BY DEF ActiveZones, BoundZones
  <2>2. fw.zones[z] \in Range(fw.zones)
    BY <2>1 DEF Range
  <2> QED
    BY <2>1, <2>2 DEF IsConfig, IsDir
<1>3. /\ ts \in Seq(T)
      /\ \A k \in 1 .. Len(ts) :
           /\ Ready(ts[k]) /\ View(ts[k].rule).act \in {"allow", "deny", "reject"}
           /\ Hit(fw, ts[k], p) =>
                \E e \in ToSet(elems) : ElemHolds(fw, e, p) /\ (View(ts[k].rule).act # "allow" <=> Denies(e))
      /\ \A e \in ToSet(elems) : ElemHolds(fw, e, p) =>
           \E k \in 1 .. Len(ts) : Hit(fw, ts[k], p) /\ (View(ts[k].rule).act # "allow" <=> Denies(e))
      /\ ~DeniedLate(fw, z) => Sorted(ts, T, D)
  BY <1>1, <1>2, TemplatesHits
<1>4. \A k \in 1 .. Len(ts) : Ready(ts[k])
  BY <1>3
<1>5. /\ l \in Seq(T)
      /\ \A k \in 1 .. Len(l) :
           /\ Live(l[k].rule)
           /\ Hit(fw, l[k], p) => /\ AnyBinds(fw, bs, p)
                                  /\ \E i \in 1 .. Len(ts) : /\ Hit(fw, ts[i], p)
                                                             /\ View(ts[i].rule).act = View(l[k].rule).act
      /\ AnyBinds(fw, bs, p) =>
           \A i \in 1 .. Len(ts) : Hit(fw, ts[i], p) =>
               \E k \in 1 .. Len(l) : Hit(fw, l[k], p) /\ View(l[k].rule).act = View(ts[i].rule).act
      /\ Sorted(ts, T, D) => Sorted(l, T, D)
  BY <1>4, EmitZoneHits
<1> HIDE DEF l, ts, bs, elems, T, D
<1>6. ASSUME NEW k \in 1 .. Len(l), Hit(fw, l[k], p)
      PROVE  /\ View(l[k].rule).act \in {"allow", "deny", "reject"}
             /\ \E e \in ToSet(elems) : ElemHolds(fw, e, p) /\ (View(l[k].rule).act # "allow" <=> Denies(e))
  <2>1. PICK i \in 1 .. Len(ts) : Hit(fw, ts[i], p) /\ View(ts[i].rule).act = View(l[k].rule).act
    BY <1>5, <1>6
  <2>2. PICK e \in ToSet(elems) : ElemHolds(fw, e, p) /\ (View(ts[i].rule).act # "allow" <=> Denies(e))
    BY <1>3, <2>1
  <2> QED
    BY <1>3, <2>1, <2>2
<1>7. ASSUME AnyBinds(fw, bs, p), NEW e \in ToSet(elems), ElemHolds(fw, e, p)
      PROVE  \E k \in 1 .. Len(l) : Hit(fw, l[k], p) /\ (View(l[k].rule).act # "allow" <=> Denies(e))
  <2>1. PICK i \in 1 .. Len(ts) : Hit(fw, ts[i], p) /\ (View(ts[i].rule).act # "allow" <=> Denies(e))
    BY <1>3, <1>7
  <2>2. PICK k \in 1 .. Len(l) : Hit(fw, l[k], p) /\ View(l[k].rule).act = View(ts[i].rule).act
    BY <1>5, <1>7, <2>1
  <2> QED
    BY <2>1, <2>2
<1> QED
  BY <1>3, <1>5, <1>6, <1>7 DEF l, N, T, D, bs, elems

-----------------------------------------------------------------------------
(* A packet has one zone. *)

\* Bindings that do not overlap (bindingsOverlap) have a packet in common only
\* through two names for one interface.
LEMMA BothBind ==
  ASSUME NEW fw, NEW a \in FwBindings, EndFits(fw, a.src), NEW b \in FwBindings, EndFits(fw, b.src),
         ~BindingsOverlap(fw, a, b), NEW p, p.v6 \in Both, BoundBy(fw, a, p), BoundBy(fw, b, p)
  PROVE  /\ a.iface # b.iface /\ AnyIface \notin {a.iface, b.iface}
         /\ Ifaces[a.iface] \cap Ifaces[b.iface] # {}
<1>1. /\ a.iface = AnyIface \/ p.iif \in Ifaces[a.iface]
      /\ b.iface = AnyIface \/ p.iif \in Ifaces[b.iface]
      /\ EndHolds(fw, a.src, p.src, p.v6) /\ EndHolds(fw, b.src, p.src, p.v6)
  BY DEF BoundBy
<1>2. CASE AnyIface \notin {a.iface, b.iface}
  BY <1>1, <1>2 DEF BindingsOverlap
<1>3. CASE AnyIface \in {a.iface, b.iface}
  <2> DEFINE x == a.src  y == b.src
  <2>0. x \in FwEnds /\ y \in FwEnds
    BY DEF FwBindings
  <2> HIDE DEF x, y
  <2>a. EndFits(fw, x) /\ EndFits(fw, y) /\ EndHolds(fw, x, p.src, p.v6) /\ EndHolds(fw, y, p.src, p.v6)
    BY <1>1 DEF x, y
  <2>1. p.v6 \in EndFamilies(fw, x) /\ p.v6 \in EndFamilies(fw, y)
    BY <2>0, <2>a, EndInFamily
  <2>2. NoNet \notin {x.net, y.net} => Nested(x.net, y.net)
    <3> SUFFICES ASSUME NoNet \notin {x.net, y.net} PROVE Nested(x.net, y.net)
      OBVIOUS
    <3>1. x.net \in Nets /\ y.net \in Nets /\ x.set = NoSet /\ y.set = NoSet /\ x.net # NoNet /\ y.net # NoNet
      BY <2>0 DEF FwEnds
    <3>2. /\ x.net.v6 = p.v6 /\ p.src \in Block(x.net)
          /\ y.net.v6 = p.v6 /\ p.src \in Block(y.net)
      BY <2>a, <3>1, EndOfNet
    <3>3. x.net.v6 = y.net.v6 /\ Block(x.net) \cap Block(y.net) # {} => Nested(x.net, y.net)
      BY <3>1, Covers
    <3> QED
      BY <3>2, <3>3
  <2>3. BindingsOverlap(fw, a, b)
    BY <1>3, <2>1, <2>2, Zenon DEF BindingsOverlap, x, y
  <2> QED
    BY <2>3
<1> QED
  BY <1>2, <1>3

\* The zone of a packet is the only one with a binding that has it.
LEMMA OneZone ==
  ASSUME NEW fw, IsConfig(fw), ~FwRefused(fw), ~TwoNames(fw), NEW p, p.v6 \in Both, ~Unclaimed(fw, p)
  PROVE  /\ ZoneOf(fw, p) \in ActiveZones(fw)
         /\ AnyBinds(fw, Bindings(fw, ZoneOf(fw, p)), p)
         /\ \A z \in ActiveZones(fw) : AnyBinds(fw, Bindings(fw, z), p) => z = ZoneOf(fw, p)
<1> DEFINE home == ZoneOf(fw, p)
<1>1. /\ fw.default \in DOMAIN fw.zones
      /\ \A y \in DOMAIN fw.zones : ParsesZone(fw, fw.zones[y])
      /\ BoundZones(fw) # {} => fw.default \in BoundZones(fw)
      /\ CheckZoneOverlap(fw)
  BY Zenon DEF FwRefused, ZonesFit
<1>2. CASE BoundZones(fw) = {}
  <2>1. ActiveZones(fw) = {fw.default} /\ Claims(fw, p) = {}
    BY <1>1, <1>2 DEF ActiveZones, Claims
  <2>2. home = fw.default
    BY <2>1 DEF ZoneOf
  <2>3. Bindings(fw, home) = <<Unbound>>
    BY <1>2 DEF Bindings
  <2>4. BoundBy(fw, Unbound, p)
    BY DEF BoundBy, Unbound, EndHolds, AnyEnd
  <2>5. AnyBinds(fw, <<Unbound>>, p)
    <3> DEFINE u == Unbound
    <3> HIDE DEF u
    <3>1. Len(<<u>>) = 1 /\ <<u>>[1] = u
      OBVIOUS
    <3>2. BoundBy(fw, u, p)
      BY <2>4 DEF u
    <3>3. AnyBinds(fw, <<u>>, p)
      BY <3>1, <3>2 DEF AnyBinds
    <3> QED
      BY <3>3 DEF u
  <2> QED
    BY <2>1, <2>2, <2>3, <2>5
<1>3. CASE BoundZones(fw) # {}
  <2>1. ActiveZones(fw) = BoundZones(fw) /\ Claims(fw, p) # {}
    BY <1>1, <1>3 DEF ActiveZones, Unclaimed
  <2>2. home \in Claims(fw, p)
    BY <2>1 DEF ZoneOf
  <2>3. ASSUME NEW z \in BoundZones(fw)
        PROVE  /\ Bindings(fw, z) = fw.zones[z].bindings
               /\ Bindings(fw, z) \in Seq(FwBindings)
               /\ \A j \in 1 .. Len(Bindings(fw, z)) : EndFits(fw, Bindings(fw, z)[j].src)
    <3>1. z \in DOMAIN fw.zones
      BY DEF BoundZones
    <3>2. fw.zones[z] \in Range(fw.zones)
      BY <3>1 DEF Range
    <3>3. fw.zones[z] \in FwZones
      BY <3>2 DEF IsConfig, IsDir
    <3>4. ParsesZone(fw, fw.zones[z])
      BY <1>1, <3>1
    <3>5. /\ Bindings(fw, z) \in Seq(FwBindings)
          /\ \A j \in DOMAIN Bindings(fw, z) : EndFits(fw, Bindings(fw, z)[j].src)
      BY <3>3, <3>4, BindingsType
    <3>6. DOMAIN Bindings(fw, z) = 1 .. Len(Bindings(fw, z))
      BY <3>5
    <3> QED
      BY <3>5, <3>6 DEF Bindings
  <2>4. home \in BoundZones(fw) /\ \E k \in DOMAIN fw.zones[home].bindings : BoundBy(fw, fw.zones[home].bindings[k], p)
    <3> HIDE DEF home
    <3> QED
      BY <2>2 DEF Claims
  <2>5. AnyBinds(fw, Bindings(fw, home), p)
    <3> HIDE DEF home
    <3> DEFINE bs == Bindings(fw, home)
    <3>1. bs = fw.zones[home].bindings /\ bs \in Seq(FwBindings)
      BY <2>3, <2>4
    <3>2. \E k \in DOMAIN bs : BoundBy(fw, bs[k], p)
      BY <2>4, <3>1
    <3> HIDE DEF bs
    <3>3. DOMAIN bs = 1 .. Len(bs)
      BY <3>1
    <3> QED
      BY <3>2, <3>3 DEF AnyBinds, bs
  <2>6. ASSUME NEW z \in BoundZones(fw), AnyBinds(fw, Bindings(fw, z), p), z # home PROVE FALSE
    <3> HIDE DEF home
    <3> DEFINE bs == Bindings(fw, z)  cs == Bindings(fw, home)
    <3>1. /\ bs = fw.zones[z].bindings /\ bs \in Seq(FwBindings) /\ \A j \in 1 .. Len(bs) : EndFits(fw, bs[j].src)
          /\ cs = fw.zones[home].bindings /\ cs \in Seq(FwBindings) /\ \A j \in 1 .. Len(cs) : EndFits(fw, cs[j].src)
      BY <2>3, <2>4
    <3>a. AnyBinds(fw, bs, p) /\ AnyBinds(fw, cs, p)
      BY <2>5, <2>6
    <3>b. \A a \in ToSet(bs), b \in ToSet(cs) : ~BindingsOverlap(fw, a, b)
      BY <1>1, <2>1, <2>4, <2>6 DEF CheckZoneOverlap
    <3> HIDE DEF bs, cs
    <3>2. PICK j \in 1 .. Len(bs) : BoundBy(fw, bs[j], p)
      BY <3>a DEF AnyBinds
    <3>3. PICK k \in 1 .. Len(cs) : BoundBy(fw, cs[k], p)
      BY <3>a DEF AnyBinds
    <3> DEFINE a == bs[j]  b == cs[k]
    <3>4. a \in ToSet(bs) /\ b \in ToSet(cs) /\ a \in FwBindings /\ b \in FwBindings
      BY <3>1 DEF ToSet
    <3>5. EndFits(fw, a.src) /\ EndFits(fw, b.src) /\ BoundBy(fw, a, p) /\ BoundBy(fw, b, p)
      BY <3>1, <3>2, <3>3
    <3> HIDE DEF a, b
    <3>6. ~BindingsOverlap(fw, a, b)
      BY <3>4, <3>b
    <3>7. /\ a.iface # b.iface /\ AnyIface \notin {a.iface, b.iface}
          /\ Ifaces[a.iface] \cap Ifaces[b.iface] # {}
      BY <3>4, <3>5, <3>6, BothBind
    <3>8. a \in ToSet(fw.zones[z].bindings) /\ b \in ToSet(fw.zones[home].bindings)
      BY <3>1, <3>4
    <3> QED
      BY <2>4, <2>6, <3>7, <3>8 DEF TwoNames
  <2> QED
    BY <2>1, <2>4, <2>5, <2>6
<1> QED
  BY <1>2, <1>3

-----------------------------------------------------------------------------
(* The rules of all zones: for a packet they are those of its own. *)

\* What is about a packet.
About(fw, p) == {t \in Ts(SetNames(fw)) : Hit(fw, t, p)}

\* What is about a packet comes of the elements of its zone.
LEMMA ZonesHits ==
  ASSUME NEW fw, IsConfig(fw), ~FwRefused(fw), OneDestination(fw), ~TwoNames(fw),
         DOMAIN fw.zones \subseteq ToSet(ZoneOrder),
         NEW p, p.v6 \in Both, OwnProto(p), ~Unclaimed(fw, p)
  PROVE  LET all == EmitZones(fw)
             N == SetNames(fw)
             elems == fw.zones[ZoneOf(fw, p)].elems IN
         /\ all \in Seq(Ts(N))
         /\ \A k \in 1 .. Len(all) :
              /\ Live(all[k].rule)
              /\ Hit(fw, all[k], p) =>
                   /\ View(all[k].rule).act \in {"allow", "deny", "reject"}
                   /\ \E e \in ToSet(elems) : ElemHolds(fw, e, p) /\ (View(all[k].rule).act # "allow" <=> Denies(e))
         /\ \A e \in ToSet(elems) : ElemHolds(fw, e, p) =>
              \E k \in 1 .. Len(all) : Hit(fw, all[k], p) /\ (View(all[k].rule).act # "allow" <=> Denies(e))
         /\ ~DeniedLate(fw, ZoneOf(fw, p)) => Sorted(all, About(fw, p), Denying(N))
<1> DEFINE all == EmitZones(fw)
           home == ZoneOf(fw, p)
           N == SetNames(fw)
           T == Ts(N)
           H == About(fw, p)
           D == Denying(N)
           n == Len(ZoneOrder)
           seqs == [i \in DOMAIN ZoneOrder |->
                      IF ZoneOrder[i] \in ActiveZones(fw) THEN EmitZone(fw, ZoneOrder[i]) ELSE <<>>]
           Sets(k, l) == \E e \in ToSet(fw.zones[home].elems) :
                           ElemHolds(fw, e, p) /\ (View(l[k].rule).act # "allow" <=> Denies(e))
<1>1. n \in Nat /\ DOMAIN ZoneOrder = 1 .. n /\ \A i, j \in 1 .. n : ZoneOrder[i] = ZoneOrder[j] => i = j
  BY ImportersAssumption DEF IsInjective
<1>2. all = FlattenSeq(seqs)
  BY DEF EmitZones
<1>3. /\ home \in ActiveZones(fw)
      /\ AnyBinds(fw, Bindings(fw, home), p)
      /\ \A z \in ActiveZones(fw) : AnyBinds(fw, Bindings(fw, z), p) => z = home
  BY OneZone
<1> HIDE DEF home, all
<1>4. ASSUME NEW i \in 1 .. n
      PROVE  /\ seqs[i] \in Seq(T)
             /\ \A k \in 1 .. Len(seqs[i]) :
                  /\ Live(seqs[i][k].rule)
                  /\ Hit(fw, seqs[i][k], p) =>
                       /\ ZoneOrder[i] = home
                       /\ View(seqs[i][k].rule).act \in {"allow", "deny", "reject"}
                       /\ Sets(k, seqs[i])
             /\ ZoneOrder[i] = home =>
                  /\ \A e \in ToSet(fw.zones[home].elems) : ElemHolds(fw, e, p) =>
                       \E k \in 1 .. Len(seqs[i]) :
                           Hit(fw, seqs[i][k], p) /\ (View(seqs[i][k].rule).act # "allow" <=> Denies(e))
                  /\ ~DeniedLate(fw, home) => Sorted(seqs[i], T, D)
  <2> DEFINE z == ZoneOrder[i]  q == EmitZone(fw, z)
  <2>1. seqs[i] = IF z \in ActiveZones(fw) THEN q ELSE <<>>
    BY <1>1
  <2> HIDE DEF seqs, z, q, T
  <2>2. CASE z \notin ActiveZones(fw)
    <3>1. seqs[i] = <<>> /\ z # home
      BY <1>3, <2>1, <2>2
    <3>2. Len(seqs[i]) = 0 /\ seqs[i] \in Seq(T)
      BY <3>1
    <3> QED
      BY <3>1, <3>2 DEF z
  <2>3. CASE z \in ActiveZones(fw)
    <3>1. seqs[i] = q
      BY <2>1, <2>3
    <3>2. /\ q \in Seq(Ts(SetNames(fw)))
          /\ \A k \in 1 .. Len(q) :
               /\ Live(q[k].rule)
               /\ Hit(fw, q[k], p) =>
                    /\ AnyBinds(fw, Bindings(fw, z), p) /\ View(q[k].rule).act \in {"allow", "deny", "reject"}
                    /\ \E e \in ToSet(fw.zones[z].elems) :
                         ElemHolds(fw, e, p) /\ (View(q[k].rule).act # "allow" <=> Denies(e))
          /\ AnyBinds(fw, Bindings(fw, z), p) =>
               \A e \in ToSet(fw.zones[z].elems) : ElemHolds(fw, e, p) =>
                 \E k \in 1 .. Len(q) : Hit(fw, q[k], p) /\ (View(q[k].rule).act # "allow" <=> Denies(e))
          /\ ~DeniedLate(fw, z) => Sorted(q, Ts(SetNames(fw)), Denying(SetNames(fw)))
      BY <2>3, ZoneHits DEF q
    <3>3. CASE z = home
      BY <1>3, <3>1, <3>2, <3>3 DEF T, z
    <3>4. CASE z # home
      <4>1. ~AnyBinds(fw, Bindings(fw, z), p)
        BY <1>3, <2>3, <3>4
      <4> QED
        BY <3>1, <3>2, <3>4, <4>1 DEF T, z
    <3> QED
      BY <3>3, <3>4
  <2> QED
    BY <2>2, <2>3
<1>5. seqs = [i \in 1 .. n |-> seqs[i]]
  BY <1>1
<1> HIDE DEF seqs
<1>6. seqs \in Seq(Seq(T)) /\ Len(seqs) = n
  <2> HIDE DEF n, T
  <2> QED
    BY <1>1, <1>4, <1>5
<1>7. /\ all \in Seq(T)
      /\ \A k \in 1 .. Len(all) : \E i \in 1 .. n : \E h \in 1 .. Len(seqs[i]) : all[k] = seqs[i][h]
      /\ \A i \in 1 .. n : \A h \in 1 .. Len(seqs[i]) : \E k \in 1 .. Len(all) : all[k] = seqs[i][h]
  <2> DEFINE q == FlattenSeq(seqs)
  <2>1. /\ q \in Seq(T)
        /\ \A k \in 1 .. Len(q) : \E j \in 1 .. Len(seqs) : \E h \in 1 .. Len(seqs[j]) : q[k] = seqs[j][h]
        /\ \A j \in 1 .. Len(seqs) : \A h \in 1 .. Len(seqs[j]) : \E k \in 1 .. Len(q) : q[k] = seqs[j][h]
    <3> HIDE DEF T
    <3>1. seqs \in Seq(Seq(T))
      BY <1>6
    <3> QED
      BY <3>1, FlatHas
  <2> HIDE DEF T, n, q
  <2>2. all = q
    BY <1>2 DEF q
  <2> QED
    BY <1>6, <2>1, <2>2
<1>8. ASSUME NEW k \in 1 .. Len(all)
      PROVE  /\ Live(all[k].rule)
             /\ Hit(fw, all[k], p) => View(all[k].rule).act \in {"allow", "deny", "reject"} /\ Sets(k, all)
  <2>1. PICK i \in 1 .. n : \E h \in 1 .. Len(seqs[i]) : all[k] = seqs[i][h]
    BY <1>7
  <2>2. PICK h \in 1 .. Len(seqs[i]) : all[k] = seqs[i][h]
    BY <2>1
  <2> QED
    BY <1>4, <2>2
<1>9. PICK own \in 1 .. n : ZoneOrder[own] = home
  <2>1. home \in DOMAIN fw.zones
    BY <1>3, Zenon DEF ActiveZones, BoundZones, FwRefused, ZonesFit
  <2>2. home \in ToSet(ZoneOrder)
    BY <2>1
  <2> QED
    BY <1>1, <2>2 DEF ToSet
<1>10. ASSUME NEW e \in ToSet(fw.zones[home].elems), ElemHolds(fw, e, p)
       PROVE  \E k \in 1 .. Len(all) : Hit(fw, all[k], p) /\ (View(all[k].rule).act # "allow" <=> Denies(e))
  <2>1. PICK h \in 1 .. Len(seqs[own]) :
          Hit(fw, seqs[own][h], p) /\ (View(seqs[own][h].rule).act # "allow" <=> Denies(e))
    BY <1>4, <1>9, <1>10
  <2>2. PICK k \in 1 .. Len(all) : all[k] = seqs[own][h]
    BY <1>7
  <2> QED
    BY <2>1, <2>2
<1>11. ASSUME ~DeniedLate(fw, home) PROVE Sorted(all, H, D)
  <2>1. \A t : t \in H => t \in T /\ Hit(fw, t, p)
    BY DEF About
  <2> HIDE DEF H, D, T
  <2>2. ASSUME NEW i \in 1 .. n PROVE Sorted(seqs[i], H, D)
    <3>1. CASE ZoneOrder[i] = home
      <4>1. Sorted(seqs[i], T, D)
        BY <1>4, <1>11, <3>1
      <4> QED
        BY <2>1, <4>1 DEF Sorted
    <3>2. CASE ZoneOrder[i] # home
      BY <1>4, <2>1, <3>2 DEF Sorted
    <3> QED
      BY <3>1, <3>2
  <2>3. ASSUME NEW i \in 1 .. n, NEW j \in 1 .. n, i < j,
               NEW a \in 1 .. Len(seqs[i]), NEW b \in 1 .. Len(seqs[j]), seqs[i][a] \in H, seqs[j][b] \in H
        PROVE  FALSE
    <3>1. ZoneOrder[i] = home /\ ZoneOrder[j] = home
      BY <1>4, <2>1, <2>3
    <3> QED
      BY <1>1, <2>3, <3>1
  <2> QED
    BY <1>2, <1>6, <2>2, <2>3, FlatSorted
<1> QED
  BY <1>7, <1>8, <1>10, <1>11 DEF home, all, T, N, H, D

-----------------------------------------------------------------------------
(* What decides in a list of firewalld's. *)

\* What decides in two lists that become one.
LEMMA FirstConcat ==
  ASSUME NEW S, NEW a \in Seq(S), NEW b \in Seq(S), NEW s, NEW p
  PROVE  LET l == a \o b IN
         /\ l \in Seq(S)
         /\ Enabled(a) /\ Enabled(b) => Enabled(l)
         /\ NoneIn(a, Len(a), s, p) /\ NoneIn(b, Len(b), s, p) => NoneIn(l, Len(l), s, p)
         /\ \A w : FirstIn(a, Len(a), s, p, w) => FirstIn(l, Len(l), s, p, w)
         /\ \A w : NoneIn(a, Len(a), s, p) /\ FirstIn(b, Len(b), s, p, w) => FirstIn(l, Len(l), s, p, w)
<1> DEFINE l == a \o b  m == Len(a)  n == Len(b)
<1>1. /\ m \in Nat /\ n \in Nat /\ l \in Seq(S) /\ Len(l) = m + n
      /\ \A k \in 1 .. m : l[k] = a[k]
      /\ \A k \in 1 .. n : l[m + k] = b[k]
  OBVIOUS
<1> HIDE DEF l, m, n
<1>2. /\ \A k \in 1 .. m : k \in 1 .. Len(l)
      /\ \A k \in 1 .. n : m + k \in 1 .. Len(l)
      /\ \A k \in 1 .. Len(l) : k \in 1 .. m \/ \E j \in 1 .. n : k = m + j
  <2>1. ASSUME NEW k \in 1 .. Len(l), k \notin 1 .. m PROVE \E j \in 1 .. n : k = m + j
    <3>1. k - m \in 1 .. n /\ k = m + (k - m)
      BY <1>1, <2>1
    <3> QED
      BY <3>1
  <2> QED
    BY <1>1, <2>1
<1>3. Enabled(a) /\ Enabled(b) => Enabled(l)
  BY <1>1, <1>2 DEF Enabled, m, n
<1>4. NoneIn(a, m, s, p) /\ NoneIn(b, n, s, p) => NoneIn(l, Len(l), s, p)
  BY <1>1, <1>2 DEF NoneIn
<1>5. ASSUME NEW w, FirstIn(a, m, s, p, w) PROVE FirstIn(l, Len(l), s, p, w)
  <2>1. PICK k \in 1 .. m : /\ Matches(s, a[k], p.v6, p) /\ a[k].action = w
                            /\ \A j \in 1 .. m : j < k => ~Matches(s, a[j], p.v6, p)
    BY <1>5 DEF FirstIn
  <2>2. \A j \in 1 .. Len(l) : j < k => j \in 1 .. m
    BY <1>1, <2>1
  <2> QED
    BY <1>1, <1>2, <2>1, <2>2 DEF FirstIn
<1>6. ASSUME NEW w, NoneIn(a, m, s, p), FirstIn(b, n, s, p, w) PROVE FirstIn(l, Len(l), s, p, w)
  <2>1. PICK k \in 1 .. n : /\ Matches(s, b[k], p.v6, p) /\ b[k].action = w
                            /\ \A j \in 1 .. n : j < k => ~Matches(s, b[j], p.v6, p)
    BY <1>6 DEF FirstIn
  <2>2. m + k \in 1 .. Len(l) /\ l[m + k] = b[k]
    BY <1>1, <1>2
  <2>3. ASSUME NEW j \in 1 .. Len(l), j < m + k PROVE ~Matches(s, l[j], p.v6, p)
    <3>1. CASE j \in 1 .. m
      BY <1>1, <1>6, <3>1 DEF NoneIn
    <3>2. CASE j \notin 1 .. m
      <4>1. PICK h \in 1 .. n : j = m + h
        BY <1>2, <3>2
      <4>2. h < k
        BY <1>1, <2>3, <4>1
      <4> QED
        BY <1>1, <2>1, <4>1, <4>2
    <3> QED
      BY <3>1, <3>2
  <2> QED
    BY <2>1, <2>2, <2>3 DEF FirstIn
<1> QED
  BY <1>1, <1>3, <1>4, <1>5, <1>6 DEF l, m, n

\* In a list of which something matches something is the first.
LEMMA SomeIn ==
  ASSUME NEW S, NEW l \in Seq(S), NEW s, NEW p, NEW w,
         \A k \in 1 .. Len(l) : l[k].action = w
  PROVE  IF \E k \in 1 .. Len(l) : Matches(s, l[k], p.v6, p)
         THEN FirstIn(l, Len(l), s, p, w) ELSE NoneIn(l, Len(l), s, p)
<1> DEFINE n == Len(l)  I == {k \in 1 .. n : Matches(s, l[k], p.v6, p)}
<1>1. n \in Nat
  OBVIOUS
<1> HIDE DEF n
<1>2. CASE I = {}
  BY <1>2 DEF NoneIn, n
<1>3. CASE I # {}
  <2>1. I \in SUBSET Nat
    BY <1>1
  <2>2. \E k \in I : \A j \in I : k <= j
    <3> HIDE DEF I
    <3> QED
      BY <1>3, <2>1, Smallest
  <2>3. PICK k \in I : \A j \in I : k <= j
    BY <2>2
  <2>4. k \in 1 .. n /\ Matches(s, l[k], p.v6, p)
    OBVIOUS
  <2>5. \A j \in 1 .. n : j < k => ~Matches(s, l[j], p.v6, p)
    BY <1>1, <2>3
  <2> QED
    BY <2>4, <2>5 DEF FirstIn, n
<1> QED
  BY <1>2, <1>3 DEF n

\* A sequence of a finite set has all of it.
LEMMA SetToSeqHas ==
  ASSUME NEW S, IsFiniteSet(S)
  PROVE  SetToSeq(S) \in Seq(S) /\ \A x \in S : \E i \in 1 .. Len(SetToSeq(S)) : SetToSeq(S)[i] = x
<1> DEFINE f == SetToSeq(S)
<1>1. PICK n \in Nat : ExistsBijection(1 .. n, S)
  BY FS_NatBijection
<1>2. Cardinality(S) = n
  BY <1>1, FS_CountingElements
<1>3. \E g \in [1 .. n -> S] : IsInjective(g)
  BY <1>1 DEF ExistsBijection, Bijection, Injection
<1>4. f \in [1 .. n -> S] /\ IsInjective(f)
  BY <1>2, <1>3 DEF SetToSeq
<1> HIDE DEF f
<1>5. f \in Injection(1 .. n, S)
  BY <1>4 DEF Injection
<1>6. Cardinality(1 .. n) = n
  <2>1. Cardinality(1 .. n) = IF 1 > n THEN 0 ELSE n - 1 + 1
    BY FS_Interval
  <2> QED
    BY <2>1
<1>7. f \in Surjection(1 .. n, S)
  BY <1>2, <1>5, <1>6, FS_Injection
<1>8. f \in Seq(S) /\ Len(f) = n
  BY <1>4
<1> QED
  BY <1>7, <1>8 DEF Surjection, f

-----------------------------------------------------------------------------
(* The rules of policies. *)

\* The rule for one type of messages.
LEMMA PolicyRuleHits ==
  ASSUME NEW fw, NEW u, SetsAre(u, fw), NEW n \in Int, n # AnyType, NEW p, p.dir = "in"
  PROVE  LET r == RIcmp(RProto(PlainRule("allow", "in"), "icmpv6"), n) IN
         /\ r \in InRules(SetNames(fw)) /\ ~r.disabled /\ ~r.expired /\ r.action = "allow"
         /\ Matches(u, r, p.v6, p) <=> p.proto = "icmpv6" /\ p.icmp = n
<1> DEFINE N == SetNames(fw)
           a == PlainRule("allow", "in")
           b == RProto(a, "icmpv6")
           r == RIcmp(b, n)
<1>1. "allow" \in Texts /\ "icmpv6" \in Texts
  BY TextsAssumption
<1>2. /\ a \in InRules(N) /\ Live(a)
      /\ View(a) = [act |-> "allow", iif |-> AnyIface, proto |-> "any", icmp |-> AnyType,
                    src |-> AnyEnd, sports |-> {}, dst |-> AnyEnd, dports |-> {}]
  <2> DEFINE t == Template("allow", Both)
  <2>1. t.rule = a
    BY DEF Template
  <2>2. t \in Ts(N)
    <3> HIDE DEF N
    <3> QED
      BY <1>1, TemplateType
  <2>3. /\ View(t.rule) = [act |-> "allow", iif |-> AnyIface, proto |-> "any", icmp |-> AnyType,
                           src |-> AnyEnd, sports |-> {}, dst |-> AnyEnd, dports |-> {}]
        /\ Live(t.rule)
    BY TemplateView
  <2>4. t.rule \in InRules(N)
    <3> HIDE DEF N, t
    <3> QED
      BY <2>2, TsParts
  <2> QED
    BY <2>1, <2>3, <2>4
<1> HIDE DEF N, a
<1>3. b \in InRules(N) /\ Live(b) /\ View(b) = [View(a) EXCEPT !.proto = "icmpv6"]
  BY <1>1, <1>2, RProtoType, RProtoView
<1> HIDE DEF b
<1>4. r \in InRules(N) /\ Live(r) /\ View(r) = [View(b) EXCEPT !.icmp = n]
  BY <1>3, RIcmpType, RIcmpView
<1> HIDE DEF r
<1>5. /\ View(r).act = "allow" /\ View(r).iif = AnyIface /\ View(r).proto = "icmpv6" /\ View(r).icmp = n
      /\ View(r).src = AnyEnd /\ View(r).dst = AnyEnd /\ View(r).sports = {} /\ View(r).dports = {}
  <2> DEFINE x == View(a)  y == View(b)  z == View(r)
  <2>1. x = [act |-> x.act, iif |-> x.iif, proto |-> x.proto, icmp |-> x.icmp,
             src |-> x.src, sports |-> x.sports, dst |-> x.dst, dports |-> x.dports]
    BY DEF View
  <2>2. /\ x.act = "allow" /\ x.iif = AnyIface
        /\ x.src = AnyEnd /\ x.dst = AnyEnd /\ x.sports = {} /\ x.dports = {}
    <3> HIDE DEF x
    <3>1. x = [act |-> "allow", iif |-> AnyIface, proto |-> "any", icmp |-> AnyType,
               src |-> AnyEnd, sports |-> {}, dst |-> AnyEnd, dports |-> {}]
      BY <1>2 DEF x
    <3> QED
      BY <3>1
  <2>3. y = [x EXCEPT !.proto = "icmpv6"] /\ z = [y EXCEPT !.icmp = n]
    BY <1>3, <1>4
  <2> HIDE DEF x, y, z
  <2>4. /\ z.act = x.act /\ z.iif = x.iif /\ z.proto = "icmpv6" /\ z.icmp = n
        /\ z.src = x.src /\ z.dst = x.dst /\ z.sports = x.sports /\ z.dports = x.dports
    BY <2>1, <2>3
  <2> QED
    BY <2>2, <2>4 DEF z
<1>6. r.action = "allow" /\ ~r.disabled /\ ~r.expired
  <2>1. View(r).act = r.action
    BY DEF View
  <2> QED
    BY <1>4, <1>5, <2>1 DEF Live
<1>7. Matches(u, r, p.v6, p) <=> ViewHolds(fw, View(r), p)
  BY <1>4, ViewMatches DEF N
<1> DEFINE v == View(r)
<1>8. /\ v.iif = AnyIface /\ v.proto = "icmpv6" /\ v.icmp = n /\ v.src = AnyEnd /\ v.dst = AnyEnd
      /\ v.sports = {} /\ v.dports = {}
  BY <1>5
<1> HIDE DEF v
<1>9. EndHolds(fw, AnyEnd, p.src, p.v6) /\ EndHolds(fw, AnyEnd, p.dst, p.v6)
  BY DEF AnyEnd, EndHolds
<1>10. IfaceOk(v.iif, p.iif) /\ InPorts(v.sports, p.sport, p.proto) /\ InPorts(v.dports, p.dport, p.proto)
  BY <1>8 DEF IfaceOk, InPorts
<1>11. /\ ProtoOk(v.proto, p) <=> p.proto = "icmpv6"
       /\ TypeOk(v.icmp, p) <=> p.icmp = n
  BY <1>8 DEF ProtoOk, TypeOk
<1>12. v.sports \cup v.dports = {}
  BY <1>8
<1>13. ViewHolds(fw, v, p) <=> p.proto = "icmpv6" /\ p.icmp = n
  BY <1>8, <1>9, <1>10, <1>11, <1>12, Zenon DEF ViewHolds
<1> QED
  BY <1>4, <1>6, <1>7, <1>13 DEF v, r, b, a, N

\* The rules of one policy.
LEMMA PolicyHits ==
  ASSUME NEW fw, NEW u, SetsAre(u, fw), NEW pol \in FwPolicies, PolicyFits(pol), NEW p, p.dir = "in"
  PROVE  LET q == PolicyRules(pol) IN
         /\ q \in Seq(InRules(SetNames(fw))) /\ Len(q) = Len(pol.rules)
         /\ \A k \in 1 .. Len(q) :
              /\ ~q[k].disabled /\ ~q[k].expired /\ q[k].action = "allow"
              /\ Matches(u, q[k], p.v6, p) <=> p.proto = "icmpv6" /\ p.icmp = pol.rules[k].icmp
<1> DEFINE rules == pol.rules
           n == Len(rules)
           q == PolicyRules(pol)
           At(k) == RIcmp(RProto(PlainRule("allow", "in"), "icmpv6"), rules[k].icmp)
<1>1. n \in Nat /\ DOMAIN rules = 1 .. n /\ \A i \in 1 .. n : rules[i].icmp \in Int
  <2> DEFINE D == [v6 : BOOLEAN, icmp : Int, verdict : Texts]
  <2>1. rules \in Seq(D)
    BY DEF FwPolicies
  <2> HIDE DEF rules, D
  <2>2. n \in Nat /\ DOMAIN rules = 1 .. n /\ \A i \in 1 .. n : rules[i] \in D
    BY <2>1
  <2> QED
    BY <2>2 DEF D
<1>2. \A i \in 1 .. n : rules[i].icmp # AnyType
  <2>1. \A i \in DOMAIN pol.rules : PolicyRuleFits(pol.rules[i])
    BY DEF PolicyFits
  <2>2. \A r : PolicyRuleFits(r) => r.icmp # AnyType
    BY DEF PolicyRuleFits
  <2> QED
    BY <1>1, <2>1, <2>2
<1>3. q = [i \in DOMAIN rules |-> At(i)]
  BY DEF PolicyRules, RIcmp, RProto
<1>4. q \in Seq(InRules(SetNames(fw)))
  BY PolicyRulesType
<1> HIDE DEF q, rules, At, n
<1>5. Len(q) = n /\ \A k \in 1 .. n : q[k] = At(k)
  BY <1>1, <1>3, <1>4
<1>6. ASSUME NEW k \in 1 .. n
      PROVE  /\ ~q[k].disabled /\ ~q[k].expired /\ q[k].action = "allow"
             /\ Matches(u, q[k], p.v6, p) <=> p.proto = "icmpv6" /\ p.icmp = rules[k].icmp
  <2> DEFINE x == rules[k].icmp
  <2>1. x \in Int /\ x # AnyType
    BY <1>1, <1>2
  <2>2. q[k] = RIcmp(RProto(PlainRule("allow", "in"), "icmpv6"), x)
    BY <1>5 DEF At
  <2> HIDE DEF x
  <2>3. LET r == RIcmp(RProto(PlainRule("allow", "in"), "icmpv6"), x) IN
        /\ r \in InRules(SetNames(fw)) /\ ~r.disabled /\ ~r.expired /\ r.action = "allow"
        /\ Matches(u, r, p.v6, p) <=> p.proto = "icmpv6" /\ p.icmp = x
    BY <2>1, PolicyRuleHits
  <2> QED
    BY <2>2, <2>3 DEF x
<1> QED
  BY <1>4, <1>5, <1>6 DEF q, rules, n

\* The rules of all.
LEMMA PoliciesDecide ==
  ASSUME NEW fw, IsConfig(fw), ~FwRefused(fw), NEW u, SetsAre(u, fw), NEW p, p.dir = "in"
  PROVE  LET l == EmitPolicies(fw) IN
         /\ l \in Seq(InRules(SetNames(fw))) /\ Enabled(l)
         /\ p.v6 /\ PolicyLetsIn(fw, p) => FirstIn(l, Len(l), u, p, "allow")
         /\ p.v6 /\ ~PolicyLetsIn(fw, p) => NoneIn(l, Len(l), u, p)
<1> DEFINE l == EmitPolicies(fw)
           R == InRules(SetNames(fw))
           D == DOMAIN fw.policies
           P == Range(fw.policies)
           S == {PolicyRules(pol) : pol \in P}
           f == [k \in D |-> PolicyRules(fw.policies[k])]
           seqs == SetToSeq(S)
<1>1. /\ IsFiniteSet(D) /\ P \subseteq FwPolicies
      /\ \A pol \in P : PolicyFits(pol)
  BY Zenon DEF IsConfig, IsDir, FwRefused
<1>2. f \in Surjection(D, S)
  <2>1. \A k \in D : fw.policies[k] \in Range(fw.policies)
    BY DEF Range
  <2>2. f \in [D -> S]
    BY <2>1
  <2>3. ASSUME NEW s \in S PROVE \E k \in D : f[k] = s
    BY DEF Range
  <2> QED
    BY <2>2, <2>3 DEF Surjection
<1>3. IsFiniteSet(S)
  <2> HIDE DEF f, S, D
  <2> QED
    BY <1>1, <1>2, FS_Surjection
<1>4. ASSUME NEW pol \in P
      PROVE  LET q == PolicyRules(pol) IN
             /\ q \in S /\ q \in Seq(R) /\ Len(q) = Len(pol.rules)
             /\ \A k \in 1 .. Len(q) :
                  /\ ~q[k].disabled /\ ~q[k].expired /\ q[k].action = "allow"
                  /\ Matches(u, q[k], p.v6, p) <=> p.proto = "icmpv6" /\ p.icmp = pol.rules[k].icmp
  <2>1. pol \in FwPolicies /\ PolicyFits(pol)
    BY <1>1
  <2>2. LET q == PolicyRules(pol) IN
        /\ q \in Seq(InRules(SetNames(fw))) /\ Len(q) = Len(pol.rules)
        /\ \A k \in 1 .. Len(q) :
             /\ ~q[k].disabled /\ ~q[k].expired /\ q[k].action = "allow"
             /\ Matches(u, q[k], p.v6, p) <=> p.proto = "icmpv6" /\ p.icmp = pol.rules[k].icmp
    BY <2>1, PolicyHits
  <2>3. PolicyRules(pol) \in S
    OBVIOUS
  <2> QED
    BY <2>2, <2>3
<1>5. \A s \in S : \E pol \in P : s = PolicyRules(pol)
  OBVIOUS
<1>6. l = FlattenSeq(seqs)
  BY DEF EmitPolicies
<1> HIDE DEF S, l, R
<1>7. /\ seqs \in Seq(S) /\ \A x \in S : \E i \in 1 .. Len(seqs) : seqs[i] = x
  BY <1>3, SetToSeqHas
<1> HIDE DEF seqs, P
<1>8. \A i \in 1 .. Len(seqs) : seqs[i] \in S
  BY <1>7
<1>9. seqs \in Seq(Seq(R))
  <2> DEFINE M == Seq(R)
  <2>1. \A i \in 1 .. Len(seqs) : seqs[i] \in M
    BY <1>4, <1>5, <1>8
  <2> HIDE DEF M
  <2>2. seqs \in Seq(M)
    BY <1>7, <2>1
  <2> QED
    BY <2>2 DEF M
<1>10. /\ l \in Seq(R)
       /\ \A k \in 1 .. Len(l) : \E i \in 1 .. Len(seqs) : \E j \in 1 .. Len(seqs[i]) : l[k] = seqs[i][j]
       /\ \A i \in 1 .. Len(seqs) : \A j \in 1 .. Len(seqs[i]) : \E k \in 1 .. Len(l) : l[k] = seqs[i][j]
  <2> DEFINE q == FlattenSeq(seqs)
  <2>1. /\ q \in Seq(R)
        /\ \A k \in 1 .. Len(q) : \E i \in 1 .. Len(seqs) : \E j \in 1 .. Len(seqs[i]) : q[k] = seqs[i][j]
        /\ \A i \in 1 .. Len(seqs) : \A j \in 1 .. Len(seqs[i]) : \E k \in 1 .. Len(q) : q[k] = seqs[i][j]
    BY <1>9, FlatHas
  <2> HIDE DEF q
  <2>2. l = q
    BY <1>6 DEF q
  <2> QED
    BY <2>1, <2>2
<1>11. ASSUME NEW k \in 1 .. Len(l)
       PROVE  \E pol \in P : \E j \in 1 .. Len(pol.rules) :
                /\ ~l[k].disabled /\ ~l[k].expired /\ l[k].action = "allow"
                /\ Matches(u, l[k], p.v6, p) <=> p.proto = "icmpv6" /\ p.icmp = pol.rules[j].icmp
  <2>1. PICK i \in 1 .. Len(seqs) : \E j \in 1 .. Len(seqs[i]) : l[k] = seqs[i][j]
    BY <1>10
  <2>2. PICK j \in 1 .. Len(seqs[i]) : l[k] = seqs[i][j]
    BY <2>1
  <2>3. PICK pol \in P : seqs[i] = PolicyRules(pol)
    BY <1>5, <1>8
  <2> DEFINE q == PolicyRules(pol)
  <2>4. /\ Len(q) = Len(pol.rules)
        /\ \A h \in 1 .. Len(q) :
             /\ ~q[h].disabled /\ ~q[h].expired /\ q[h].action = "allow"
             /\ Matches(u, q[h], p.v6, p) <=> p.proto = "icmpv6" /\ p.icmp = pol.rules[h].icmp
    BY <1>4
  <2> HIDE DEF q
  <2>5. j \in 1 .. Len(q) /\ l[k] = q[j]
    BY <2>2, <2>3 DEF q
  <2> QED
    BY <2>4, <2>5
<1>12. ASSUME NEW pol \in P, NEW j \in 1 .. Len(pol.rules), p.proto = "icmpv6", p.icmp = pol.rules[j].icmp
       PROVE  \E k \in 1 .. Len(l) : Matches(u, l[k], p.v6, p)
  <2> DEFINE q == PolicyRules(pol)
  <2>1. /\ q \in S /\ Len(q) = Len(pol.rules)
        /\ \A h \in 1 .. Len(q) :
             Matches(u, q[h], p.v6, p) <=> p.proto = "icmpv6" /\ p.icmp = pol.rules[h].icmp
    BY <1>4
  <2> HIDE DEF q
  <2>2. PICK i \in 1 .. Len(seqs) : seqs[i] = q
    BY <1>7, <2>1
  <2>3. PICK k \in 1 .. Len(l) : l[k] = q[j]
    BY <1>10, <2>1, <2>2
  <2> QED
    BY <1>12, <2>1, <2>3
<1>13. Enabled(l) /\ \A k \in 1 .. Len(l) : l[k].action = "allow"
  BY <1>11 DEF Enabled
<1>14. \A pol \in P : DOMAIN pol.rules = 1 .. Len(pol.rules)
  <2> SUFFICES ASSUME NEW pol \in P PROVE DOMAIN pol.rules = 1 .. Len(pol.rules)
    OBVIOUS
  <2> DEFINE rules == pol.rules
  <2>1. rules \in Seq([v6 : BOOLEAN, icmp : Int, verdict : Texts])
    BY <1>1 DEF FwPolicies
  <2> HIDE DEF rules
  <2>2. DOMAIN rules = 1 .. Len(rules)
    BY <2>1
  <2> QED
    BY <2>2 DEF rules
<1>15. p.v6 => (PolicyLetsIn(fw, p) <=> \E k \in 1 .. Len(l) : Matches(u, l[k], p.v6, p))
  <2>1. PolicyLetsIn(fw, p) <=> \E pol \in P : \E k \in DOMAIN pol.rules :
          p.v6 /\ p.proto = "icmpv6" /\ p.icmp = pol.rules[k].icmp
    BY DEF PolicyLetsIn, P
  <2> QED
    BY <1>11, <1>12, <1>14, <2>1
<1>16. IF \E k \in 1 .. Len(l) : Matches(u, l[k], p.v6, p)
       THEN FirstIn(l, Len(l), u, p, "allow") ELSE NoneIn(l, Len(l), u, p)
  BY <1>10, <1>13, SomeIn
<1> QED
  BY <1>10, <1>13, <1>15, <1>16 DEF l, R

-----------------------------------------------------------------------------
(* The rules of zones, in the list of one family. *)

\* What the list of a family has for a template.
ForFamily(t, v6) == IF v6 \in t.families THEN <<t.rule>> ELSE <<>>

\* What the list of a family has for a template.
LEMMA OneTemplate ==
  ASSUME NEW fw, NEW u, SetsAre(u, fw), NEW t \in Ts(SetNames(fw)), Live(t.rule), NEW p, p.dir = "in"
  PROVE  LET q == ForFamily(t, p.v6) IN
         /\ q \in Seq(InRules(SetNames(fw))) /\ Enabled(q)
         /\ Hit(fw, t, p) => FirstIn(q, Len(q), u, p, View(t.rule).act)
         /\ ~Hit(fw, t, p) => NoneIn(q, Len(q), u, p)
<1> DEFINE R == InRules(SetNames(fw))  x == t.rule  q == ForFamily(t, p.v6)
<1>1. x \in R
  BY TsParts
<1>2. Matches(u, x, p.v6, p) <=> ViewHolds(fw, View(x), p)
  BY <1>1, ViewMatches
<1>3. ~x.disabled /\ ~x.expired /\ x.action = View(t.rule).act
  BY DEF Live, View
<1>4. Hit(fw, t, p) <=> p.v6 \in t.families /\ Matches(u, x, p.v6, p)
  BY <1>2 DEF Hit
<1>5. q = IF p.v6 \in t.families THEN <<x>> ELSE <<>>
  BY DEF ForFamily
<1> HIDE DEF R, x, q
<1>6. CASE p.v6 \in t.families
  <2>1. q \in Seq(R) /\ Len(q) = 1 /\ q[1] = x
    BY <1>1, <1>5, <1>6
  <2>2. \A k : k \in 1 .. Len(q) <=> k = 1
    BY <2>1
  <2>3. Enabled(q)
    BY <1>3, <2>1, <2>2 DEF Enabled
  <2>4. Matches(u, x, p.v6, p) => FirstIn(q, Len(q), u, p, x.action)
    BY <2>1, <2>2 DEF FirstIn
  <2>5. ~Matches(u, x, p.v6, p) => NoneIn(q, Len(q), u, p)
    BY <2>1, <2>2 DEF NoneIn
  <2> QED
    BY <1>3, <1>4, <1>6, <2>1, <2>3, <2>4, <2>5 DEF q, R
<1>7. CASE p.v6 \notin t.families
  <2>1. q \in Seq(R) /\ Len(q) = 0
    BY <1>5, <1>7
  <2>2. Enabled(q) /\ NoneIn(q, Len(q), u, p)
    BY <2>1 DEF Enabled, NoneIn
  <2> QED
    BY <1>4, <1>7, <2>1, <2>2 DEF q, R
<1> QED
  BY <1>6, <1>7

\* What decides in the list is the first template that is about the packet.
LEMMA ListDecides ==
  ASSUME NEW fw, NEW u, SetsAre(u, fw), NEW all \in Seq(Ts(SetNames(fw))),
         \A k \in 1 .. Len(all) : Live(all[k].rule), NEW p, p.dir = "in"
  PROVE  LET l == FlattenSeq([i \in DOMAIN all |-> ForFamily(all[i], p.v6)]) IN
         /\ l \in Seq(InRules(SetNames(fw))) /\ Enabled(l)
         /\ (\A k \in 1 .. Len(all) : ~Hit(fw, all[k], p)) => NoneIn(l, Len(l), u, p)
         /\ \A k \in 1 .. Len(all) :
              Hit(fw, all[k], p) /\ (\A j \in 1 .. Len(all) : j < k => ~Hit(fw, all[j], p)) =>
                FirstIn(l, Len(l), u, p, View(all[k].rule).act)
<1> DEFINE n == Len(all)  T == Ts(SetNames(fw))  R == InRules(SetNames(fw))
           seqs == [i \in DOMAIN all |-> ForFamily(all[i], p.v6)]
           l == FlattenSeq(seqs)
<1>1. n \in Nat /\ DOMAIN all = 1 .. n /\ \A k \in 1 .. n : all[k] \in T
  <2>1. all \in Seq(T)
    OBVIOUS
  <2> HIDE DEF T
  <2> QED
    BY <2>1
<1>2. ASSUME NEW k \in 1 .. n
      PROVE  /\ seqs[k] \in Seq(R) /\ Enabled(seqs[k])
             /\ Hit(fw, all[k], p) => FirstIn(seqs[k], Len(seqs[k]), u, p, View(all[k].rule).act)
             /\ ~Hit(fw, all[k], p) => NoneIn(seqs[k], Len(seqs[k]), u, p)
  <2> DEFINE t == all[k]  q == ForFamily(t, p.v6)
  <2>1. t \in Ts(SetNames(fw)) /\ Live(t.rule)
    BY <1>1
  <2>2. seqs[k] = q
    BY <1>1
  <2> HIDE DEF t, seqs
  <2>3. /\ q \in Seq(InRules(SetNames(fw))) /\ Enabled(q)
        /\ Hit(fw, t, p) => FirstIn(q, Len(q), u, p, View(t.rule).act)
        /\ ~Hit(fw, t, p) => NoneIn(q, Len(q), u, p)
    BY <2>1, OneTemplate
  <2> HIDE DEF q
  <2> QED
    BY <2>2, <2>3 DEF t
<1>3. seqs = [i \in 1 .. n |-> seqs[i]]
  BY <1>1
<1> HIDE DEF seqs
<1>4. seqs \in Seq(Seq(R)) /\ Len(seqs) = n
  <2> DEFINE M == Seq(R)
  <2>1. n \in Nat /\ \A i \in 1 .. n : seqs[i] \in M
    BY <1>1, <1>2
  <2> HIDE DEF M, n
  <2>2. seqs \in Seq(M) /\ Len(seqs) = n
    BY <1>3, <2>1
  <2> QED
    BY <2>2 DEF M
<1> HIDE DEF n, T, R, l
<1>5. /\ \A k \in 1 .. Len(l) : \E j \in 1 .. n : \E m \in 1 .. Len(seqs[j]) : l[k] = seqs[j][m]
      /\ (\A j \in 1 .. n : NoneIn(seqs[j], Len(seqs[j]), u, p)) => NoneIn(l, Len(l), u, p)
      /\ \A i \in 1 .. n : \A w :
           /\ \A j \in 1 .. n : j < i => NoneIn(seqs[j], Len(seqs[j]), u, p)
           /\ FirstIn(seqs[i], Len(seqs[i]), u, p, w)
           => FirstIn(l, Len(l), u, p, w)
  BY <1>4, FlatEarliest DEF l
<1>6. l \in Seq(R)
  <2> DEFINE q == FlattenSeq(seqs)
  <2>1. q \in Seq(R)
    BY <1>4, FlatHas
  <2> QED
    BY <2>1 DEF l
<1>7. Enabled(l)
  <2>1. ASSUME NEW k \in 1 .. Len(l) PROVE ~l[k].disabled /\ ~l[k].expired
    <3>1. PICK j \in 1 .. n : \E m \in 1 .. Len(seqs[j]) : l[k] = seqs[j][m]
      BY <1>5
    <3>2. Enabled(seqs[j])
      BY <1>2
    <3> QED
      BY <3>1, <3>2 DEF Enabled
  <2> QED
    BY <2>1 DEF Enabled
<1>8. (\A k \in 1 .. n : ~Hit(fw, all[k], p)) => NoneIn(l, Len(l), u, p)
  BY <1>2, <1>5
<1>9. ASSUME NEW k \in 1 .. n, Hit(fw, all[k], p), \A j \in 1 .. n : j < k => ~Hit(fw, all[j], p)
      PROVE  FirstIn(l, Len(l), u, p, View(all[k].rule).act)
  <2> DEFINE w == View(all[k].rule).act
  <2>1. FirstIn(seqs[k], Len(seqs[k]), u, p, w)
    BY <1>2, <1>9
  <2> HIDE DEF w
  <2>2. FirstIn(l, Len(l), u, p, w)
    BY <1>2, <1>5, <1>9, <2>1
  <2> QED
    BY <2>2 DEF w
<1> QED
  BY <1>6, <1>7, <1>8, <1>9 DEF l, R, n, seqs

\* Where what denies goes first, the zone says it of the packet.
LEMMA ZonesDecide ==
  ASSUME NEW fw, IsConfig(fw), ~FwRefused(fw), OneDestination(fw), ~TwoNames(fw),
         DOMAIN fw.zones \subseteq ToSet(ZoneOrder), NEW u, SetsAre(u, fw),
         NEW p, p.dir = "in", p.v6 \in Both, OwnProto(p), ~Unclaimed(fw, p), ~DeniedLate(fw, ZoneOf(fw, p))
  PROVE  LET all == EmitZones(fw)
             l == FlattenSeq([i \in DOMAIN all |-> ForFamily(all[i], p.v6)]) IN
         /\ l \in Seq(InRules(SetNames(fw))) /\ Enabled(l)
         /\ ZoneElems(fw, p, TRUE) # {} => FirstIn(l, Len(l), u, p, "deny") \/ FirstIn(l, Len(l), u, p, "reject")
         /\ ZoneElems(fw, p, TRUE) = {} /\ ZoneElems(fw, p, FALSE) # {} => FirstIn(l, Len(l), u, p, "allow")
         /\ ZoneElems(fw, p, TRUE) = {} /\ ZoneElems(fw, p, FALSE) = {} => NoneIn(l, Len(l), u, p)
<1> DEFINE all == EmitZones(fw)
           n == Len(all)
           N == SetNames(fw)
           l == FlattenSeq([i \in DOMAIN all |-> ForFamily(all[i], p.v6)])
           elems == fw.zones[ZoneOf(fw, p)].elems
           I == {k \in 1 .. n : Hit(fw, all[k], p)}
           No == ZoneElems(fw, p, TRUE)
           Yes == ZoneElems(fw, p, FALSE)
<1>1. /\ all \in Seq(Ts(N))
      /\ \A k \in 1 .. n :
           /\ Live(all[k].rule)
           /\ Hit(fw, all[k], p) =>
                /\ View(all[k].rule).act \in {"allow", "deny", "reject"}
                /\ \E e \in ToSet(elems) : ElemHolds(fw, e, p) /\ (View(all[k].rule).act # "allow" <=> Denies(e))
      /\ \A e \in ToSet(elems) : ElemHolds(fw, e, p) =>
           \E k \in 1 .. n : Hit(fw, all[k], p) /\ (View(all[k].rule).act # "allow" <=> Denies(e))
      /\ Sorted(all, About(fw, p), Denying(N))
  BY ZonesHits
<1>2. \A e : /\ e \in No <=> e \in ToSet(elems) /\ Denies(e) /\ ElemHolds(fw, e, p)
             /\ e \in Yes <=> e \in ToSet(elems) /\ ~Denies(e) /\ ElemHolds(fw, e, p)
  <2>1. \A e : Denies(e) \in BOOLEAN
    BY DEF Denies
  <2> QED
    BY <2>1 DEF ZoneElems
<1> HIDE DEF all, elems, No, Yes
<1>3. /\ l \in Seq(InRules(N)) /\ Enabled(l)
      /\ (\A k \in 1 .. n : ~Hit(fw, all[k], p)) => NoneIn(l, Len(l), u, p)
      /\ \A k \in 1 .. n :
           Hit(fw, all[k], p) /\ (\A j \in 1 .. n : j < k => ~Hit(fw, all[j], p)) =>
             FirstIn(l, Len(l), u, p, View(all[k].rule).act)
  <2>1. \A k \in 1 .. Len(all) : Live(all[k].rule)
    BY <1>1
  <2> QED
    BY <1>1, <2>1, ListDecides
<1> HIDE DEF l
<1>4. ASSUME NEW k \in 1 .. n PROVE all[k] \in Ts(N)
  <2> DEFINE T == Ts(N)
  <2> HIDE DEF T
  <2>1. all \in Seq(T)
    BY <1>1 DEF T
  <2>2. all[k] \in T
    BY <2>1
  <2> QED
    BY <2>2 DEF T
<1>a. n \in Nat
  <2> DEFINE T == Ts(N)
  <2> HIDE DEF T
  <2>1. all \in Seq(T)
    BY <1>1 DEF T
  <2> QED
    BY <2>1
<1> HIDE DEF n, N
<1>5. CASE I = {}
  <2>1. No = {} /\ Yes = {}
    <3>1. \A e \in ToSet(elems) : ~ElemHolds(fw, e, p)
      BY <1>1, <1>5
    <3> QED
      BY <1>2, <3>1
  <2>2. NoneIn(l, Len(l), u, p)
    BY <1>3, <1>5
  <2> QED
    BY <1>3, <2>1, <2>2 DEF l, all, No, Yes, N
<1>6. CASE I # {}
  <2>1. \E k \in I : \A j \in I : k <= j
    <3>1. I \in SUBSET Nat
      BY <1>a
    <3> HIDE DEF I
    <3> QED
      BY <1>6, <3>1, Smallest
  <2>2. PICK k \in I : \A j \in I : k <= j
    BY <2>1
  <2> DEFINE w == View(all[k].rule).act
  <2>3. k \in 1 .. n /\ Hit(fw, all[k], p) /\ \A j \in 1 .. n : j < k => ~Hit(fw, all[j], p)
    BY <1>a, <2>2
  <2>4. FirstIn(l, Len(l), u, p, w) /\ w \in {"allow", "deny", "reject"}
    BY <1>1, <1>3, <2>3
  <2>5. PICK e \in ToSet(elems) : ElemHolds(fw, e, p) /\ (w # "allow" <=> Denies(e))
    BY <1>1, <2>3
  <2>6. w # "allow" => No # {}
    BY <1>2, <2>5
  <2>7. ASSUME w = "allow" PROVE No = {} /\ Yes # {}
    <3>1. e \in Yes
      BY <1>2, <2>5, <2>7
    <3>2. ASSUME NEW d \in No PROVE FALSE
      <4>1. d \in ToSet(elems) /\ Denies(d) /\ ElemHolds(fw, d, p)
        BY <1>2, <3>2
      <4>2. PICK j \in 1 .. n : Hit(fw, all[j], p) /\ View(all[j].rule).act # "allow"
        BY <1>1, <4>1
      <4>3. j \in I
        BY <4>2
      <4>4. k < j
        <5>1. k # j
          BY <2>7, <4>2
        <5> QED
          BY <1>a, <2>2, <2>3, <4>3, <5>1
      <4>5. all[k] \in About(fw, p) /\ all[j] \in About(fw, p) /\ all[j] \in Denying(N)
        BY <1>4, <2>3, <4>2 DEF About, Denying, N
      <4>6. all[k] \in Denying(N)
        BY <1>1, <2>3, <4>4, <4>5 DEF Sorted, n
      <4> QED
        BY <2>7, <4>6 DEF Denying
    <3> QED
      BY <3>1, <3>2
  <2> HIDE DEF w
  <2>8. w # "allow" => FirstIn(l, Len(l), u, p, "deny") \/ FirstIn(l, Len(l), u, p, "reject")
    BY <2>4
  <2> QED
    BY <1>3, <2>4, <2>6, <2>7, <2>8 DEF l, all, No, Yes, N
<1> QED
  BY <1>5, <1>6

-----------------------------------------------------------------------------
(* What is let in. *)

\* The rules of a family say of a packet what firewalld says of it.
LEMMA FwReads ==
  ASSUME NEW fw, IsConfig(fw), ~FwRefused(fw), OneDestination(fw), ~TwoNames(fw),
         DOMAIN fw.zones \subseteq ToSet(ZoneOrder), NEW u, SetsAre(u, fw),
         NEW p, p.dir = "in", p.v6 \in Both, OwnProto(p), ~Unclaimed(fw, p), ~DeniedLate(fw, ZoneOf(fw, p))
  PROVE  LET l == FwRules(fw, p.v6) IN
         /\ l \in Seq(InRules(SetNames(fw))) /\ Enabled(l)
         /\ LetsIn(fw, p) => FirstIn(l, Len(l), u, p, "allow")
         /\ ~LetsIn(fw, p) => \/ NoneIn(l, Len(l), u, p)
                              \/ FirstIn(l, Len(l), u, p, "deny") \/ FirstIn(l, Len(l), u, p, "reject")
<1> DEFINE all == EmitZones(fw)
           a == IF p.v6 THEN EmitPolicies(fw) ELSE <<>>
           b == FlattenSeq([i \in DOMAIN all |-> ForFamily(all[i], p.v6)])
           l == FwRules(fw, p.v6)
           R == InRules(SetNames(fw))
           No == ZoneElems(fw, p, TRUE)
           Yes == ZoneElems(fw, p, FALSE)
           pol == PolicyLetsIn(fw, p)
<1>1. l = a \o b
  BY DEF FwRules, ForFamily
<1>2. /\ b \in Seq(R) /\ Enabled(b)
      /\ No # {} => FirstIn(b, Len(b), u, p, "deny") \/ FirstIn(b, Len(b), u, p, "reject")
      /\ No = {} /\ Yes # {} => FirstIn(b, Len(b), u, p, "allow")
      /\ No = {} /\ Yes = {} => NoneIn(b, Len(b), u, p)
  BY ZonesDecide
<1>3. LetsIn(fw, p) <=> pol \/ (No = {} /\ Yes # {})
  BY DEF LetsIn
<1>4. pol => p.v6
  BY DEF PolicyLetsIn
<1> HIDE DEF b, l, R, No, Yes, pol
<1>5. /\ a \in Seq(R) /\ Enabled(a)
      /\ pol => FirstIn(a, Len(a), u, p, "allow")
      /\ ~pol => NoneIn(a, Len(a), u, p)
  <2>1. CASE p.v6
    <3> DEFINE e == EmitPolicies(fw)
    <3>1. /\ e \in Seq(R) /\ Enabled(e)
          /\ p.v6 /\ pol => FirstIn(e, Len(e), u, p, "allow")
          /\ p.v6 /\ ~pol => NoneIn(e, Len(e), u, p)
      BY PoliciesDecide DEF pol, R
    <3>2. a = e
      BY <2>1
    <3> HIDE DEF a, e
    <3> QED
      BY <2>1, <3>1, <3>2
  <2>2. CASE ~p.v6
    <3>1. a = <<>>
      BY <2>2
    <3> HIDE DEF a
    <3>2. a \in Seq(R) /\ Len(a) = 0
      BY <3>1
    <3>3. Enabled(a) /\ NoneIn(a, Len(a), u, p)
      BY <3>2 DEF Enabled, NoneIn
    <3> QED
      BY <1>4, <2>2, <3>2, <3>3
  <2> QED
    BY <2>1, <2>2
<1> HIDE DEF a
<1>6. /\ l \in Seq(R)
      /\ Enabled(a) /\ Enabled(b) => Enabled(l)
      /\ NoneIn(a, Len(a), u, p) /\ NoneIn(b, Len(b), u, p) => NoneIn(l, Len(l), u, p)
      /\ \A w : FirstIn(a, Len(a), u, p, w) => FirstIn(l, Len(l), u, p, w)
      /\ \A w : NoneIn(a, Len(a), u, p) /\ FirstIn(b, Len(b), u, p, w) => FirstIn(l, Len(l), u, p, w)
  <2> DEFINE m == a \o b
  <2>1. /\ m \in Seq(R)
        /\ Enabled(a) /\ Enabled(b) => Enabled(m)
        /\ NoneIn(a, Len(a), u, p) /\ NoneIn(b, Len(b), u, p) => NoneIn(m, Len(m), u, p)
        /\ \A w : FirstIn(a, Len(a), u, p, w) => FirstIn(m, Len(m), u, p, w)
        /\ \A w : NoneIn(a, Len(a), u, p) /\ FirstIn(b, Len(b), u, p, w) => FirstIn(m, Len(m), u, p, w)
    BY <1>2, <1>5, FirstConcat
  <2>2. l = m
    BY <1>1
  <2> HIDE DEF m
  <2> QED
    BY <2>1, <2>2
<1> QED
  BY <1>2, <1>3, <1>5, <1>6 DEF l, R

\* An imported configuration's sets are in the state as they were.
LEMMA FwSetsAre ==
  ASSUME NEW s, NEW fw, DOMAIN s.sets \cap DOMAIN FwSets(fw) = {}, NEW u, u.sets = MergeSets(s.sets, FwSets(fw))
  PROVE  SetsAre(u, fw)
<1>1. ASSUME NEW n \in SetNames(fw) PROVE u.sets[n] = fw.ipsets[n].entries
  <2>1. n \in DOMAIN FwSets(fw) /\ n \notin DOMAIN s.sets
    BY DEF SetNames
  <2>2. MergeSets(s.sets, FwSets(fw))[n] = {} \cup FwSets(fw)[n]
    BY <2>1 DEF MergeSets
  <2>3. FwSets(fw)[n] = fw.ipsets[n].entries
    BY <2>1 DEF FwSets
  <2> DEFINE e == fw.ipsets[n].entries
  <2>4. {} \cup e = e
    OBVIOUS
  <2> QED
    BY <2>2, <2>3, <2>4
<1> QED
  BY <1>1 DEF SetsAre

\* What an accepted configuration makes of the verdict on a packet, where no
\* rules are and what comes in is not let in by itself.
LEMMA FwDecides ==
  ASSUME NEW s, IsState(s), NEW fw, IsConfig(fw), ~FwRefused(fw), OneDestination(fw), ~TwoNames(fw),
         DOMAIN fw.zones \subseteq ToSet(ZoneOrder), DOMAIN s.sets \cap DOMAIN FwSets(fw) = {},
         s.policies["in"] # "allow",
         NEW p \in Packets, p.dir = "in", OwnProto(p), ~Rivals(FwRules(fw, p.v6)),
         ~Unclaimed(fw, p), ~DeniedLate(fw, ZoneOf(fw, p)), Len(RulesFor(s, p)) = 0
  PROVE  (StateVerdict(FwMerged(s, fw), p) = "accept") = LetsIn(fw, p)
<1> DEFINE u == FwMerged(s, fw)  src == FwRules(fw, p.v6)  l == RulesFor(u, p)  N == SetNames(fw)
           old == RulesFor(s, p)  says == StateVerdict(u, p)
<1>1. p.v6 \in Both /\ p.v6 \in BOOLEAN
  BY ChainsAssumption DEF Both
<1>2. /\ IsState(u) /\ u.sets = MergeSets(s.sets, FwSets(fw)) /\ u.policies = s.policies
      /\ u.rules4 = MergeRules(s.rules4, FwRules(fw, FALSE))
      /\ u.rules6 = MergeRules(s.rules6, FwRules(fw, TRUE))
  BY FwMergedKeeps
<1> HIDE DEF u
<1>3. l = MergeRules(old, src)
  BY <1>1, <1>2 DEF RulesFor
<1>4. SetsAre(u, fw)
  BY <1>2, FwSetsAre
<1>5. /\ src \in Seq(InRules(N)) /\ Enabled(src)
      /\ LetsIn(fw, p) => FirstIn(src, Len(src), u, p, "allow")
      /\ ~LetsIn(fw, p) => \/ NoneIn(src, Len(src), u, p)
                           \/ FirstIn(src, Len(src), u, p, "deny") \/ FirstIn(src, Len(src), u, p, "reject")
  BY <1>1, <1>4, FwReads
<1>6. AgreeOn(src, u, p)
  <2>1. ~Rivals(src)
    OBVIOUS
  <2> HIDE DEF src
  <2>2. \A k \in 1 .. Len(src) : src[k] \in ToSet(src)
    BY <1>5 DEF ToSet
  <2> QED
    BY <2>1, <2>2 DEF AgreeOn, Rivals
<1>7. old = <<>>
  <2> DEFINE S == Naming(DOMAIN s.sets)
  <2>1. old \in Seq(S) /\ Len(old) = 0
    BY ListOf
  <2> HIDE DEF S, old
  <2> QED
    BY <2>1
<1> HIDE DEF old, src, l, N, says
<1>8. src \in Seq(Naming(N))
  <2> DEFINE R == InRules(N)  M == Naming(N)
  <2>1. R \subseteq M
    BY DEF InRules
  <2>2. src \in Seq(R)
    BY <1>5
  <2> HIDE DEF R, M
  <2>3. src \in Seq(M)
    BY <2>1, <2>2
  <2> QED
    BY <2>3 DEF M
<1>9. /\ NoneIn(src, Len(src), u, p) => NoneIn(l, Len(l), u, p)
      /\ \A w : FirstIn(src, Len(src), u, p, w) => FirstIn(l, Len(l), u, p, w)
  <2>1. old \in Seq(Naming(N)) /\ Len(old) = 0
    BY <1>7
  <2>2. LET m == MergeRules(old, src) IN
        /\ m \in Seq(Naming(N)) /\ Enabled(m)
        /\ NoneIn(src, Len(src), u, p) => NoneIn(m, Len(m), u, p)
        /\ \A w : FirstIn(src, Len(src), u, p, w) => FirstIn(m, Len(m), u, p, w)
    BY <1>5, <1>6, <1>8, <2>1, FileDecides
  <2> QED
    BY <1>3, <2>2
<1>10. /\ NoneIn(l, Len(l), u, p) => FirstMatch(u, p) = 0
       /\ \A w \in {"allow", "deny", "reject"} : FirstIn(l, Len(l), u, p, w) => says = Says(w)
  <2>1. LET m == RulesFor(u, p) IN
        /\ NoneIn(m, Len(m), u, p) => FirstMatch(u, p) = 0
        /\ \A w \in {"allow", "deny", "reject"} : FirstIn(m, Len(m), u, p, w) =>
             FirstMatch(u, p) # 0 /\ StateVerdict(u, p) = Says(w)
    BY <1>1, <1>2, FirstDecides
  <2> QED
    BY <2>1 DEF l, says
<1>11. /\ Says("allow") = "accept" /\ Says("deny") # "accept" /\ Says("reject") # "accept"
       /\ \A w : w # "allow" => Says(w) # "accept"
  BY DEF Says
<1>12. NoneIn(l, Len(l), u, p) => says = Says(s.policies["in"])
  <2>1. FirstMatch(u, p) = 0 => says = Says(u.policies[p.dir])
    BY <1>2, VerdictIs DEF says
  <2> QED
    BY <1>2, <1>10, <2>1
<1>13. LetsIn(fw, p) \in BOOLEAN
  BY DEF LetsIn, PolicyLetsIn
<1>14. says = "accept" <=> LetsIn(fw, p)
  <2>1. CASE LetsIn(fw, p)
    BY <1>5, <1>9, <1>10, <1>11, <2>1
  <2>2. CASE ~LetsIn(fw, p)
    <3>1. CASE NoneIn(src, Len(src), u, p)
      BY <1>9, <1>11, <1>12, <2>2, <3>1
    <3>2. CASE FirstIn(src, Len(src), u, p, "deny") \/ FirstIn(src, Len(src), u, p, "reject")
      BY <1>9, <1>10, <1>11, <2>2, <3>2
    <3> QED
      BY <1>5, <2>2, <3>1, <3>2
  <2> QED
    BY <2>1, <2>2
<1>15. (says = "accept") = LetsIn(fw, p)
  BY <1>13, <1>14
<1> QED
  BY <1>15 DEF says, u

(* An accepted configuration (importFirewalld) into a state without rules  *)
(* lets in what it let in before and no more: a packet has one zone, whose *)
(* elements become templates that are about what the elements are about,   *)
(* each of them a rule for each of the zone's bindings, and what denies is *)
(* before what accepts.                                                    *)
THEOREM ZonesAreKept == Spec => []ZonesKept
<1>1. ASSUME Made PROVE ZonesKept
  <2>1. ASSUME NEW i \in LastFrom("firewalld"), Fresh(i), ~Grows(i), i.before.policies["in"] # "allow",
               OneDestination(i.source), ~TwoNames(i.source),
               NEW v6 \in Both, ~Rivals(FwRules(i.source, v6)),
               NEW p \in {q \in Opening("in") : q.v6 = v6 /\ OwnProto(q)},
               ~Unclaimed(i.source, p), ~DeniedLate(i.source, ZoneOf(i.source, p))
        PROVE  (StateVerdict(st, p) = "accept") = LetsIn(i.source, p)
    <3>1. i \in LastImport /\ i.kind = "firewalld"
      BY DEF LastFrom
    <3>2. IsState(i.before) /\ MadeFrom(i, st)
      BY <1>1, <3>1 DEF Made
    <3> DEFINE fw == i.source  s == i.before
    <3>3. /\ IsConfig(fw) /\ ~FwRefused(fw) /\ st = FwMerged(s, fw) /\ IsState(s)
          /\ DOMAIN fw.zones \subseteq ToSet(ZoneOrder)
      BY <3>1, <3>2 DEF MadeFrom
    <3>4. s.rules4 \o s.rules6 = <<>> /\ s.policies["in"] # "allow"
      BY <2>1 DEF Fresh
    <3>5. DOMAIN s.sets \cap DOMAIN FwSets(fw) = {}
      BY <2>1, <3>1 DEF Grows
    <3>6. p \in Packets /\ p.dir = "in" /\ OwnProto(p) /\ p.v6 = v6
      BY DEF Opening, New
    <3>7. /\ OneDestination(fw) /\ ~TwoNames(fw) /\ ~Rivals(FwRules(fw, p.v6))
          /\ ~Unclaimed(fw, p) /\ ~DeniedLate(fw, ZoneOf(fw, p))
      BY <2>1, <3>6
    <3> HIDE DEF fw, s
    <3>8. Len(RulesFor(s, p)) = 0
      <4> DEFINE S == Naming(DOMAIN s.sets)
      <4>1. s.rules4 \in Seq(S) /\ s.rules6 \in Seq(S)
        BY <3>3 DEF IsState
      <4> HIDE DEF S
      <4>2. Len(s.rules4) = 0 /\ Len(s.rules6) = 0
        BY <3>4, <4>1
      <4> QED
        BY <4>2 DEF RulesFor
    <3>9. (StateVerdict(FwMerged(s, fw), p) = "accept") = LetsIn(fw, p)
      BY <3>3, <3>4, <3>5, <3>6, <3>7, <3>8, FwDecides
    <3> QED
      BY <3>3, <3>9 DEF fw
  <2> QED
    BY <2>1 DEF ZonesKept
<1> QED
  BY <1>1, StateIsMade, PTL

=============================================================================
