--------------------------- MODULE ResourceCommands ---------------------------
(***************************************************************************)
(* The command classes of the copied neutron client, and the requests of   *)
(* the plugin to AFC: what each asks of the server and in which order.     *)
(*                                                                         *)
(* A command is a sequence of steps, most of them one request of           *)
(* RestClient: names are looked up first, some lists are read to be        *)
(* written back with members added or removed, and a change comes last.    *)
(* Each class is an operator that builds its steps from the options the    *)
(* user may give it; attributes that are only copied into a body are left  *)
(* out. A resource has a name, which need not be unique, and one list of   *)
(* members (rules of a policy, ports of a group, subports of a trunk,      *)
(* targets of a BGP VPN, configurations of a switch).                      *)
(***************************************************************************)
EXTENDS RestClient, Sequences, FiniteSets, SequencesExt

CONSTANTS Ids,    \* ids of resources
          Names,  \* their names, given by users
          Items,  \* what can be a member
          Workloads,  \* commands given in a deployment, by its "work"
          None

(* careless: users do not mind each other. inUse: resources that cannot be *)
(* deleted. resources: those there are. work: the commands given.          *)
ASSUME CommandAssumption ==
    \A s \in Setups : /\ s.careless \in BOOLEAN
                      /\ s.inUse \subseteq Ids
                      /\ s.work \in DOMAIN Workloads

VARIABLES res,  \* server: the resources
          job   \* the command of each caller

vars == <<clientVars, res, job>>

-------------------------------------------------------------------------------
(* Steps. A step whose failure is in "catch" counts as one failure, and    *)
(* the command goes on after "skip" steps; any other failure ends it.      *)

Failures == {"NotFound", "NoUnique", "Conflict", "Broken"}

Step(what, of, S) ==
    [do |-> what, of |-> of, members |-> S, catch |-> {}, skip |-> 1]

Find(n) == Step("find", n, {})    \* find_resource(n)['id']
First(n) == Step("first", n, {})  \* the first that matches, by a list
Read(n) == Step("read", n, {})    \* find_resource(n)[list]
Show == Step("show", None, {})    \* show_...(id)[list]
Lookups(xs) == [i \in DOMAIN xs |-> Step("item", xs[i], {})]
Member(x) == Step("member", x, {})  \* an association of the resource, by id
List == Step("list", None, {})
Raise == Step("raise", None, {})  \* an exception of the command's own
Put(style) == Step(style, None, {})
Post == Step("post", None, {})
Insert(S) == Step("insert", None, S)  \* one request that adds members
TakeOut(S) == Step("remove", None, S)
Associate(S) == Step("associate", None, S)

(* How a list is written: "keep" leaves it out of the body, "replace" uses *)
(* the members given, "add" and "cut" those read, changed by those given.  *)
Styles == {"keep", "replace", "add", "cut"}

Method(s) ==
    CASE s.do \in Styles \cup {"insert", "remove", "configure", "withdraw"} -> "PUT"
      [] s.do \in {"post", "associate"} -> "POST"
      [] s.do \in {"delete", "dissociate"} -> "DELETE"
      [] OTHER -> "GET"

Writes(s) == Method(s) # "GET"

(* steps; the names (or ids) of resources it works on; members given; how  *)
(* they are meant; a new name or None.                                     *)
Command(steps, names, items, style, to) ==
    [steps |-> steps, names |-> names, items |-> items, style |-> style,
     to |-> to]

SetStyle(xs, wipe) == CASE xs = <<>> /\ ~ wipe -> "keep"
                        [] xs # <<>> /\ ~ wipe -> "add"
                        [] OTHER -> "replace"

UnsetStyle(xs, all) == CASE all -> "replace"
                         [] xs # <<>> /\ ~ all -> "cut"
                         [] OTHER -> "keep"

ReadIf(step, style) == IF style \in {"add", "cut"} THEN <<step>> ELSE <<>>

(* The shapes most classes share.                                          *)
Create(n, xs) ==
    Command(Append(Lookups(xs), Post), {}, ToSet(xs), "replace", n)

Rename(n, to) == Command(<<Find(n), Put("keep")>>, {n}, {}, "keep", to)

ShowOne(n) == Command(<<Find(n), Show>>, {n}, {}, "keep", None)

ListAll == Command(<<List>>, {}, {}, "keep", None)

Deletion(n, catch) ==
    <<[Find(n) EXCEPT !.catch = catch, !.skip = 2],
      [Step("delete", None, {}) EXCEPT !.catch = catch]>>

BulkDelete(ns, catch) ==
    Command([k \in 1 .. 2 * Len(ns) |->
                Deletion(ns[(k + 1) \div 2], catch)[2 - (k % 2)]],
            ToSet(ns), {}, "keep", None)

-------------------------------------------------------------------------------
(* osc/v2/fwaas                                                            *)

CreateFirewallGroup(n, xs) == Create(n, xs)
DeleteFirewallGroup(ns) == BulkDelete(ns, Failures)
ListFirewallGroup == ListAll
ShowFirewallGroup(n) == ShowOne(n)

SetFirewallGroup(n, xs, wipe, to) ==
    LET st == SetStyle(xs, wipe)
    IN  Command(<<Find(n)>> \o Lookups(xs) \o ReadIf(Read(n), st)
                    \o <<Put(st)>>, {n}, ToSet(xs), st, to)

UnsetFirewallGroup(n, xs, all) ==
    LET st == UnsetStyle(xs, all)
    IN  Command(<<Find(n)>> \o ReadIf(Read(n), st) \o Lookups(xs)
                    \o <<Put(st)>>, {n}, ToSet(xs), st, None)

CreateFirewallPolicy(n, xs) == Create(n, xs)
DeleteFirewallPolicy(ns) == BulkDelete(ns, Failures)
ListFirewallPolicy == ListAll
ShowFirewallPolicy(n) == ShowOne(n)

SetFirewallPolicy(n, xs, wipe, to) ==
    LET st == SetStyle(xs, wipe)
    IN  Command(<<Find(n)>> \o ReadIf(Read(n), st) \o Lookups(xs)
                    \o <<Put(st)>>, {n}, ToSet(xs), st, to)

UnsetFirewallPolicy(n, xs, all) == UnsetFirewallGroup(n, xs, all)

(* xs: the rule, and the one it is to stand before or after.               *)
FirewallPolicyInsertRule(n, xs) ==
    Command(<<Find(n)>> \o Lookups(xs) \o <<Insert({xs[1]})>>,
            {n}, {xs[1]}, "add", None)

FirewallPolicyRemoveRule(n, x) ==
    Command(<<Find(n)>> \o Lookups(<<x>>) \o <<TakeOut({x})>>,
            {n}, {x}, "cut", None)

CreateFirewallRule(n) == Create(n, <<>>)
DeleteFirewallRule(ns) == BulkDelete(ns, Failures)
ListFirewallRule == ListAll
SetFirewallRule(n, to) == Rename(n, to)
ShowFirewallRule(n) == ShowOne(n)
UnsetFirewallRule(n) == Rename(n, None)

-------------------------------------------------------------------------------
(* osc/v2/sfc. Lists that were read are put into a set as one element,     *)
(* set([list]), which raises a TypeError; of members given, a port chain   *)
(* uses the last.                                                          *)

LastOf(xs) == IF xs = <<>> THEN {} ELSE {Last(xs)}

CreateSfcFlowClassifier(n, xs) == Create(n, xs)
DeleteSfcFlowClassifier(n) == BulkDelete(<<n>>, {})
ListSfcFlowClassifier == ListAll
SetSfcFlowClassifier(n, to) == Rename(n, to)
ShowSfcFlowClassifier(n) == ShowOne(n)

CreateSfcPortPair(n, xs) == Create(n, xs)
DeleteSfcPortPair(n) == BulkDelete(<<n>>, {})
ListSfcPortPair == ListAll
SetSfcPortPair(n, to) == Rename(n, to)
ShowSfcPortPair(n) == ShowOne(n)

CreateSfcPortPairGroup(n, xs) == Create(n, xs)
DeleteSfcPortPairGroup(n) == BulkDelete(<<n>>, {})
ListSfcPortPairGroup == ListAll
ShowSfcPortPairGroup(n) == ShowOne(n)

(* xs is looked up by _get_common_attrs and once more by the class.        *)
SetSfcPortPairGroup(n, xs, wipe, to) ==
    LET st == SetStyle(xs, wipe)
    IN  Command(<<Find(n)>> \o Lookups(xs) \o Lookups(xs)
                    \o (IF st = "add" THEN <<Read(n), Raise>> ELSE <<Put(st)>>),
                {n}, ToSet(xs), st, to)

(* Of the members given, "tried" are looked up before the TypeError.       *)
UnsetMembers(n, xs, all, tried) ==
    LET st == UnsetStyle(xs, all)
    IN  Command(<<Find(n)>>
                    \o (IF st = "cut" THEN <<Read(n)>> \o Lookups(tried) \o <<Raise>>
                        ELSE <<Put(st)>>), {n}, ToSet(xs), st, None)

UnsetSfcPortPairGroup(n, xs, all) == UnsetMembers(n, xs, all, xs)

CreateSfcPortChain(n, xs) == Create(n, xs)
DeleteSfcPortChain(n) == BulkDelete(<<n>>, {})
ListSfcPortChain == ListAll
ShowSfcPortChain(n) == ShowOne(n)

(* Flow classifiers (--flow-classifier, --no-flow-classifier).             *)
SetSfcPortChain(n, xs, wipe, to) ==
    [SetSfcPortPairGroup(n, xs, wipe, to) EXCEPT !.items = LastOf(xs)]

(* Port pair groups. A port chain cannot be left without one.              *)
SetPortPairGroups(n, xs, wipe, to) ==
    LET st == SetStyle(xs, wipe)
    IN  Command(<<Find(n)>> \o Lookups(xs)
                    \o (CASE st = "add" -> <<Read(n)>> \o Lookups(<<xs[1]>>) \o <<Raise>>
                          [] st = "replace" /\ xs = <<>> -> <<Raise>>
                          [] OTHER -> Lookups(xs) \o <<Put(st)>>),
                {n}, LastOf(xs), st, to)

UnsetSfcPortChain(n, xs, all) == UnsetMembers(n, xs, all, <<xs[1]>>)
UnsetPortPairGroups(n, xs) == UnsetMembers(n, xs, FALSE, xs)

-------------------------------------------------------------------------------
(* osc/v2/networking_bgpvpn. Targets are data; an association is a member, *)
(* created and deleted under its BGP VPN.                                  *)

CreateBgpvpn(n, xs) == Command(<<Post>>, {}, ToSet(xs), "replace", n)
DeleteBgpvpn(ns) == BulkDelete(ns, Failures)
ListBgpvpn == ListAll
ShowBgpvpn(n) == ShowOne(n)

(* The list is read whenever members are given, and --no-... wins over     *)
(* them.                                                                   *)
Args2Body(n, xs, style, wipe, to) ==
    LET st == IF wipe THEN "replace" ELSE IF xs = <<>> THEN "keep" ELSE style
    IN  Command(<<Find(n)>> \o (IF xs # <<>> THEN <<Show>> ELSE <<>>)
                    \o <<Put(st)>>,
                {n}, IF wipe THEN {} ELSE ToSet(xs), st, to)

SetBgpvpn(n, xs, wipe, to) == Args2Body(n, xs, "add", wipe, to)
UnsetBgpvpn(n, xs, wipe) == Args2Body(n, xs, "cut", wipe, None)

CreateBgpvpnResAssoc(n, x) ==
    Command(<<Find(n)>> \o Lookups(<<x>>) \o <<Associate({x})>>,
            {n}, {x}, "add", None)

DeleteBgpvpnResAssoc(n, xs) ==
    Command(<<Find(n)>> \o [i \in DOMAIN xs |->
                [Step("dissociate", None, {xs[i]}) EXCEPT !.catch = Failures]],
            {n}, ToSet(xs), "cut", None)

ListBgpvpnResAssoc(n) == Command(<<Find(n), List>>, {n}, {}, "keep", None)

ShowBgpvpnResAssoc(n, x) ==
    Command(<<Find(n), Member(x), Member(x)>>, {n}, {}, "keep", None)

-------------------------------------------------------------------------------
(* osc/v2/trunk. Setting subports is a change of its own, made after the   *)
(* update of the trunk.                                                    *)

CreateNetworkTrunk(n, xs) == Create(n, xs)
DeleteNetworkTrunk(ns) == BulkDelete(ns, Failures)
ListNetworkTrunk == ListAll
ShowNetworkTrunk(n) == ShowOne(n)
ListNetworkSubport(n) == ShowOne(n)

SetNetworkTrunk(n, xs, to) ==
    Command(<<Find(n), Put("keep")>> \o Lookups(xs)
                \o (IF xs = <<>> THEN <<>> ELSE <<Insert(ToSet(xs))>>),
            {n}, ToSet(xs), "add", to)

UnsetNetworkTrunk(n, xs) ==
    Command(Lookups(xs) \o <<Find(n), TakeOut(ToSet(xs))>>,
            {n}, ToSet(xs), "cut", None)

-------------------------------------------------------------------------------
(* neutron/v2_0: the older commands.                                       *)

CreateCommand(n) == Create(n, <<>>)
ListCommand == ListAll
ShowCommand(n) == ShowOne(n)

UpdateCommand(n, to) ==
    IF to = None THEN Command(<<Raise>>, {n}, {}, "keep", None)
    ELSE Rename(n, to)

(* What cannot be found is collected; anything else ends the command.      *)
DeleteCommand(ns) == BulkDelete(ns, {"NotFound", "NoUnique"})

(* Everything the project has, deleted by id; failures are counted.        *)
Purge == Command(<<Step("survey", None, {})>>, Names, {}, "keep", None)

AddInterfaceRouter(n, x) == FirewallPolicyInsertRule(n, <<x>>)
RemoveInterfaceRouter(n, x) == FirewallPolicyRemoveRule(n, x)

SetGatewayRouter(n, x) ==
    Command(<<Find(n)>> \o Lookups(<<x>>) \o <<Put("replace")>>,
            {n}, {x}, "replace", None)

RemoveGatewayRouter(n) ==
    Command(<<Find(n), Put("replace")>>, {n}, {}, "replace", None)

FwInsertRule(n, xs) ==
    Command(Lookups(xs) \o <<Find(n), Insert({xs[1]})>>, {n}, {xs[1]}, "add", None)

FwRemoveRule(n, x) == UnsetNetworkTrunk(n, <<x>>)

(* Agents are given by id, what is added to them by name.                  *)
ToAgent(i, x, what, style) ==
    Command(Append(Lookups(<<x>>), [Step(what, None, {x}) EXCEPT !.of = i]),
            {i}, {x}, style, None)

AddNetworkToDhcpAgent(i, x) == ToAgent(i, x, "associate", "add")
RemoveNetworkFromDhcpAgent(i, x) == ToAgent(i, x, "dissociate", "cut")
AddRouterToL3Agent(i, x) == ToAgent(i, x, "associate", "add")
RemoveRouterFromL3Agent(i, x) == ToAgent(i, x, "dissociate", "cut")
ListNetworksOnDhcpAgent == ListAll
ListRoutersOnL3Agent == ListAll
ListDhcpAgentsHostingNetwork(n) == ListBgpvpnResAssoc(n)
ListL3AgentsHostingRouter(n) == ListBgpvpnResAssoc(n)

AddBGPSpeakerToDRAgent(i, x) == ToAgent(i, x, "associate", "add")
RemoveBGPSpeakerFromDRAgent(i, x) == ToAgent(i, x, "dissociate", "cut")
ListBGPSpeakersOnDRAgent == ListAll
ListDRAgentsHostingBGPSpeaker(n) == ListBgpvpnResAssoc(n)

AddPeerToSpeaker(n, x) == FirewallPolicyInsertRule(n, <<x>>)
RemovePeerFromSpeaker(n, x) == FirewallPolicyRemoveRule(n, x)
AddNetworkToSpeaker(n, x) == FirewallPolicyInsertRule(n, <<x>>)
RemoveNetworkFromSpeaker(n, x) == FirewallPolicyRemoveRule(n, x)
ListRoutesAdvertisedBySpeaker(n) == ListBgpvpnResAssoc(n)

(* A floating IP is given by id, and so is its port: it is not looked up.  *)
UpdateFloatingIP(i, S) ==
    Command(<<[Put("replace") EXCEPT !.of = i]>>, {i}, S, "replace", None)

AssociateFloatingIP(i, x) == UpdateFloatingIP(i, {x})
DisassociateFloatingIP(i) == UpdateFloatingIP(i, {})

AssociateFlavor(n, x) == CreateBgpvpnResAssoc(n, x)

DisassociateFlavor(n, x) ==
    Command(<<Find(n)>> \o Lookups(<<x>>) \o <<Step("dissociate", None, {x})>>,
            {n}, {x}, "cut", None)

-------------------------------------------------------------------------------
(* common/api.py: a switch by its IP address, and one request for it.      *)

ToSwitch(is_send_afc, n, what, x, style) ==
    Command(IF is_send_afc THEN <<First(n), Step(what, None, {x})>> ELSE <<>>,
            {n}, {x}, style, None)

SendConfigToAfc(on, n, x) == ToSwitch(on, n, "configure", x, "add")
DeleteConfigFromAfc(on, n, x) == ToSwitch(on, n, "withdraw", x, "cut")
CreateOrUpdateVrf(on, n, x) == ToSwitch(on, n, "configure", x, "add")
DeleteOrUpdateVrf(on, n, x) == ToSwitch(on, n, "withdraw", x, "cut")

-------------------------------------------------------------------------------
(* What the classes have in common. q stands for the steps of a command c, *)
(* or for those it has left.                                               *)

Deeds == Styles \cup
    {"find", "first", "read", "show", "item", "member", "list", "survey",
     "raise", "post", "insert", "remove", "configure", "withdraw",
     "associate", "dissociate", "delete"}

ChangesIn(q) == {k \in DOMAIN q : Writes(q[k])}

Creates(c) == \E k \in DOMAIN c.steps : c.steps[k].do = "post"

(* A step on a resource comes after the look-up of its id, ...             *)
NeedsId(s) ==
    \/ s.do \in {"show", "member"}
    \/ Writes(s) /\ s.do # "post" /\ s.of \notin Ids

LooksUp(q) ==
    \A k \in DOMAIN q : NeedsId(q[k]) =>
        \E f \in 1..(k - 1) : /\ q[f].do \in {"find", "first"}
                              /\ q[f].catch = {} \/ f + q[f].skip > k

(* ... one that adds members after their look-up, ...                      *)
AddedBy(s, c) ==
    CASE s.do \in {"post", "replace", "add"} -> c.items
      [] s.do \in {"insert", "associate", "configure"} -> s.members
      [] OTHER -> {}

KnowsMembers(q, c) ==
    \A k \in DOMAIN q : \A i \in AddedBy(q[k], c) \ Items :
        \E f \in 1..(k - 1) : q[f].do = "item" /\ q[f].of = i

(* ... the last step is a change, if there is any, and the only one of a   *)
(* creation; only deletions, and the look-ups before them, may fail.       *)
InOrder(q, c) ==
    \A k \in DOMAIN q :
        /\ q[k].do \in Deeds
        /\ ChangesIn(c.steps) # {} => /\ q[k].do # "survey"
                                     /\ Writes(q[Len(q)])
        /\ Creates(c) /\ Writes(q[k]) => q[k].do = "post" /\ k = Len(q)
        /\ q[k].catch # {} =>
               IF q[k].do = "find"
               THEN q[k].skip = 2 /\ k < Len(q) /\ Writes(q[k + 1])
               ELSE q[k].do \in {"delete", "dissociate"} /\ q[k].skip = 1

(* It looks up what its user has named, and changes that, and the members  *)
(* given as its style says; ...                                            *)
StaysWith(s, c) ==
    /\ s.do \in {"find", "first", "read"} => s.of \in c.names
    /\ s.do = "show" => s.of = None
    /\ Writes(s) /\ s.of \in Ids => s.of \in c.names \/ c = Purge
    /\ s.do = "delete" => c.to = None /\ (s.of = None \/ c = Purge)
    /\ s.do = "survey" => c = Purge
    /\ s.do = "post" => c.to # None
    /\ s.do \in Styles \ {"keep"} => s.do = c.style
    /\ s.do \in {"add", "cut"} => s.of = None
    /\ s.do \in {"insert", "associate", "configure"} =>
          c.style = "add" /\ s.members \subseteq c.items
    /\ s.do \in {"remove", "dissociate", "withdraw"} =>
          c.style = "cut" /\ s.members \subseteq c.items

(* ... and what it writes back it has read before, of the same resource,   *)
(* with no change of its own in between.                                   *)
Reads(s) == s.do \in {"read", "show"}
WritesBack(s) == s.do \in {"add", "cut"}

ReadsFirst(q) ==
    \A k \in DOMAIN q : WritesBack(q[k]) => \E f \in 1..(k - 1) : Reads(q[f])

ReadsLate(q, c) ==
    \A k \in DOMAIN q :
        /\ Reads(q[k]) => \A g \in DOMAIN q : k < g => q[g].do \notin {"find", "first"}
        /\ Reads(q[k]) \/ WritesBack(q[k]) => \A f \in 1..(k - 1) : ~ Writes(q[f])
        /\ q[k].do = "read" => c.names = {q[k].of}

WellFormed(c) ==
    /\ c.steps \in Seq(ToSet(c.steps))
    /\ c.to \in Names \cup {None}
    /\ LooksUp(c.steps) /\ KnowsMembers(c.steps, c) /\ InOrder(c.steps, c)
    /\ \A k \in DOMAIN c.steps : StaysWith(c.steps[k], c)
    /\ ReadsFirst(c.steps) /\ ReadsLate(c.steps, c)

-------------------------------------------------------------------------------
(* External: the server. It answers one request with a status, what the    *)
(* client takes from the answer, and its resources from then on. A         *)
(* resource that has been deleted keeps its name; its id is never given    *)
(* again.                                                                  *)

Resource == [there : BOOLEAN, name : Names \cup {None}, has : SUBSET Items]

(* External: the resources of a deployment, which all have names, and the  *)
(* commands given there.                                                   *)
ASSUME WorkloadAssumption ==
    /\ IsFiniteSet(Ids) /\ None \notin Ids \cup Names
    /\ \A s \in Setups : /\ s.resources \in [Ids -> Resource]
                         /\ \A i \in Ids : LET r == s.resources[i] IN
                                r.there => r.name \in Names
                         /\ \A c \in Workloads[s.work] : WellFormed(c)

Unused == [there |-> FALSE, name |-> None, has |-> {}]

Existing == {i \in Ids : res[i].there}

Named(n) == {i \in Existing : res[i].name = n}

Refuse(status) == [status |-> status, id |-> None, seen |-> {}, after |-> res]

Tell(i, S) == [status |-> "ok", id |-> i, seen |-> S, after |-> res]

Change(i, r) ==
    [status |-> "ok", id |-> i, seen |-> {}, after |-> [res EXCEPT ![i] = r]]

(* Of resources with one name the server lists any first.                  *)
Serve_first(n) ==
    IF Named(n) = {} THEN {Refuse("NotFound")}
    ELSE {Tell(i, res[i].has) : i \in Named(n)}

(* _find_resource_by_name                                                  *)
Serve_find(n) ==
    IF Cardinality(Named(n)) > 1 THEN {Refuse("NoUnique")} ELSE Serve_first(n)

Serve_post(c) ==
    LET fresh == {i \in Ids : res[i] = Unused}
    IN  IF fresh = {} THEN {Refuse("Conflict")}
        ELSE {Change(i, [there |-> TRUE, name |-> c.to, has |-> c.items]) :
                i \in fresh}

(* Mutant of Written: what has been read is not put back.                  *)
WrittenAnew(j, style, old) ==
    CASE style = "keep" -> old
      [] style \in {"replace", "add"} -> j.cmd.items
      [] style = "cut" -> j.seen \ j.cmd.items

Written(j, style, old) ==
    CASE style = "keep" -> old
      [] style = "replace" -> j.cmd.items
      [] style = "add" -> j.seen \cup j.cmd.items
      [] style = "cut" -> j.seen \ j.cmd.items

(* A request on resource i, which may be gone by now.                      *)
Serve_change(j, s, i) ==
    LET old == res[i]
        With(S) == {Change(i, [old EXCEPT !.has = S])}
    IN  IF ~ old.there THEN {Refuse("NotFound")}
        ELSE
        CASE s.do \in Styles ->
                {Change(i, [old EXCEPT
                    !.has = Written(j, s.do, old.has),
                    !.name = IF j.cmd.to = None THEN old.name ELSE j.cmd.to])}
          [] s.do \in {"insert", "associate"} ->
                IF s.members \cap old.has # {} THEN {Refuse("Conflict")}
                ELSE With(old.has \cup s.members)
          [] s.do \in {"remove", "dissociate"} ->
                IF s.members \subseteq old.has THEN With(old.has \ s.members)
                ELSE {Refuse("NotFound")}
          [] s.do = "configure" -> With(old.has \cup s.members)
          [] s.do = "withdraw" -> With(old.has \ s.members)
          [] s.do = "delete" ->
                IF i \in setup.inUse THEN {Refuse("Conflict")}
                ELSE {Change(i, [old EXCEPT !.there = FALSE, !.has = {}])}
          [] s.do = "show" -> {Tell(i, old.has)}

Serve(j) ==
    LET s == Head(j.left)
    IN  CASE s.do \in {"find", "read"} -> Serve_find(s.of)
          [] s.do = "first" -> Serve_first(s.of)
          [] s.do = "item" -> IF s.of \in Items THEN {Tell(None, {})}
                              ELSE {Refuse("NotFound")}
          [] s.do = "member" -> IF s.of \in res[j.id].has THEN {Tell(None, {})}
                                ELSE {Refuse("NotFound")}
          [] s.do \in {"list", "survey"} -> {Tell(None, {})}
          [] s.do = "post" -> Serve_post(j.cmd)
          [] OTHER -> Serve_change(j, s, IF s.of \in Ids THEN s.of ELSE j.id)

-------------------------------------------------------------------------------
(* Callers. did counts the changes the server has made for a command; the  *)
(* client does not know it.                                                *)

Job(c) == [cmd |-> c, at |-> "ready", left |-> c.steps, id |-> None,
           seen |-> {}, fails |-> 0, did |-> 0]

(* The step has failed as "why" says.                                      *)
Failed(j, why) ==
    LET s == Head(j.left)
    IN  IF why \in s.catch
        THEN [j EXCEPT !.fails = @ + 1,
                       !.left = SubSeq(@, s.skip + 1, Len(@))]
        ELSE [j EXCEPT !.at = "failed"]

DeleteEach(S) ==
    LET q == SetToSeq(S)
    IN  [k \in DOMAIN q |->
            [Step("delete", q[k], {}) EXCEPT !.catch = Failures]]

(* The step has succeeded with answer r.                                   *)
Succeeded(j, r) ==
    LET s == Head(j.left)
    IN  [j EXCEPT
           !.id = IF s.do \in {"find", "first"} THEN r.id ELSE @,
           !.seen = IF s.do \in {"read", "show"} THEN r.seen ELSE @,
           !.left = IF s.do = "survey" THEN DeleteEach(Existing) ELSE Tail(@)]

Counted(j, r) ==
    IF r.status = "ok" /\ Writes(Head(j.left)) THEN [j EXCEPT !.did = @ + 1]
    ELSE j

After(j, r) ==
    IF r.status = "ok" THEN Succeeded(j, r) ELSE Failed(j, r.status)

(* Mutant of Unless: the first broken connection ends the step.            *)
UnlessBroken(u, j) ==
    IF call'[u].at = "broken" \/ call'[u].tries > 0 THEN Failed(j, "Broken") ELSE j

(* What becomes of job j if the client has given up its request.           *)
Unless(u, j) == IF call'[u].at = "broken" THEN Failed(j, "Broken") ELSE j

SetJob(u, j) == job' = [job EXCEPT ![u] = j]

Running(u) == job[u].at = "running"

(* Unless users are careless, a command that writes back a list it has     *)
(* read, or gives a name, does not run together with another one on the    *)
(* same resources.                                                         *)
NeedsQuiet(c) ==
    c.to # None \/ \E k \in DOMAIN c.steps : c.steps[k].do \in {"add", "cut"}

NamesOf(c) ==
    c.names \cup ({c.to} \ {None}) \cup {res[i].name : i \in c.names \cap Ids}

Overlaps(c, d) ==
    /\ NeedsQuiet(c) \/ NeedsQuiet(d)
    /\ NamesOf(c) \cap NamesOf(d) # {}

Start(u) ==
    /\ job[u].at = "ready"
    /\ setup.careless \/ \A v \in Callers :
            Running(v) => ~ Overlaps(job[u].cmd, job[v].cmd)
    /\ SetJob(u, [job[u] EXCEPT !.at = "running"])
    /\ UNCHANGED <<clientVars, res>>

NextStep(u) ==
    /\ Running(u)
    /\ job[u].left # <<>>
    /\ Head(job[u].left).do # "raise"
    /\ Issue(u, Method(Head(job[u].left)))
    /\ UNCHANGED <<res, job>>

Fails(u) ==
    /\ Running(u)
    /\ ~ Pending(u)
    /\ job[u].left # <<>>
    /\ Head(job[u].left).do = "raise"
    /\ SetJob(u, [job[u] EXCEPT !.at = "failed"])
    /\ UNCHANGED <<clientVars, res>>

Finish(u) ==
    /\ Running(u)
    /\ ~ Pending(u)
    /\ job[u].left = <<>>
    /\ SetJob(u, [job[u] EXCEPT !.at = "done"])
    /\ UNCHANGED <<clientVars, res>>

(* A step of the client that does not reach the server's resources.        *)
ClientStep(u) ==
    /\ \/ Authenticate(u)
       \/ Rejected(u)
       \/ NotReached(u)
       \/ Refused(u)
       \/ Expire(u)
    /\ IF Pending(u) THEN SetJob(u, Unless(u, job[u])) ELSE UNCHANGED job
    /\ UNCHANGED res

Served(u) ==
    /\ Answered(u)
    /\ \E r \in Serve(job[u]) :
          /\ res' = r.after
          /\ SetJob(u, After(Counted(job[u], r), r))

ServedInVain(u) ==
    /\ AnswerLost(u)
    /\ \E r \in Serve(job[u]) :
          /\ res' = r.after
          /\ SetJob(u, Unless(u, Counted(job[u], r)))

CommandInit ==
    /\ Init
    /\ res = setup.resources
    /\ job \in [Callers -> {Job(c) : c \in Workloads[setup.work]}]

CommandNext == \E u \in Callers :
    \/ Start(u)
    \/ NextStep(u)
    \/ Fails(u)
    \/ Finish(u)
    \/ ClientStep(u)
    \/ Served(u)
    \/ ServedInVain(u)

CommandSpec == CommandInit /\ [][CommandNext]_vars

-------------------------------------------------------------------------------

TypeOK ==
    /\ ClientTypeOK
    /\ res \in [Ids -> Resource]
    /\ \A u \in Callers : LET j == job[u] IN
          /\ j.at \in {"ready", "running", "done", "failed"}
          /\ j.id \in Ids \cup {None}
          /\ j.seen \subseteq Items
          /\ j.fails \in Nat /\ j.did \in Nat
          /\ Pending(u) => Running(u) /\ j.left # <<>>
          /\ Running(u) /\ Pending(u) =>
                call[u].method = Method(Head(j.left))

Changes(c) == Cardinality(ChangesIn(c.steps))

(* What a command reports is true of the server, whatever connection broke *)
(* and whatever the client repeated: a command that ends well has made     *)
(* each of its changes; a creation ("orphan objects", v2_0/client.py:310)  *)
(* has made one at most, even if it is reported as failed; a deletion of   *)
(* several counts as failed all it has not deleted; and where no           *)
(* connection broke, a command of one change that fails has made none.     *)
ReportsTrue ==
    \A u \in Callers : LET j == job[u] IN
        /\ Delivered(u)
        /\ j.at = "done" => j.did + j.fails >= Changes(j.cmd)
        /\ Creates(j.cmd) => j.did <= 1
        /\ faults = setup.faults =>
              /\ j.at = "failed" /\ Changes(j.cmd) = 1 => j.did = 0
              /\ j.at = "done" /\ Changes(j.cmd) > 0 =>
                    j.did + j.fails = Changes(j.cmd)

(* What command c, working on resource i, may do to it.                    *)
Allows(c, old, new) ==
    /\ new.there \/ old.name \in c.names
    /\ new.there => new.name \in {old.name, c.to}
    /\ new.has \ old.has \subseteq
          (IF c.style \in {"add", "replace"} THEN c.items ELSE {})
    /\ new.there => old.has \ new.has \subseteq
          (CASE c.style = "cut" -> c.items [] c.style = "replace" -> Items
             [] OTHER -> {})

(* No command changes a resource its user has not named, or members its    *)
(* user has not named, although most lists are read and written back as a  *)
(* whole (osc/v2/fwaas/firewallgroup.py:169) - unless careless users       *)
(* overlap.                                                                *)
ChangesOnlyNamed ==
    [][~ setup.careless =>
        \A i \in Ids : res[i].there /\ res'[i] # res[i] =>
            \E u \in Callers : /\ Running(u)
                               /\ \/ job[u].id = i
                                  \/ i \in job[u].cmd.names
                                  \/ job[u].cmd = Purge
                               /\ Allows(job[u].cmd, res[i], res'[i])]_vars

===============================================================================
