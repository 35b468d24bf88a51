-------------------------- MODULE MCResourceCommands --------------------------
(* Small instances of ResourceCommands for TLC. *)
EXTENDS ResourceCommands

CONSTANTS n1, n2, i1, i2, i3, x, y, gone

Symmetry == Permutations(Callers)

Resources(second) ==
    (i1 :> [there |-> TRUE, name |-> n1, has |-> {x}])
        @@ (i2 :> [there |-> TRUE, name |-> second, has |-> {x, y}])
        @@ (i3 :> Unused)

Setup(retries, keystone, flts, careless, inUse, second, work) ==
    [retries |-> retries, keystone |-> keystone, faults |-> flts,
     careless |-> careless, inUse |-> inUse, resources |-> Resources(second),
     work |-> work]

(* Commands that read a list and write it back. *)
Edits ==
    {SetFirewallGroup(n1, <<y>>, FALSE, n2), SetFirewallGroup(n1, <<y>>, TRUE, None),
     SetFirewallGroup(n1, <<gone>>, FALSE, None), UnsetFirewallGroup(n1, <<x>>, FALSE),
     UnsetFirewallGroup(n1, <<>>, TRUE), SetFirewallPolicy(n1, <<y>>, FALSE, None),
     SetFirewallPolicy(n1, <<>>, TRUE, n2), UnsetFirewallPolicy(n1, <<x>>, FALSE),
     SetBgpvpn(n1, <<y>>, FALSE, None), SetBgpvpn(n1, <<y>>, TRUE, n2),
     UnsetBgpvpn(n1, <<x>>, FALSE), UnsetBgpvpn(n1, <<>>, FALSE),
     SetSfcPortPairGroup(n1, <<y>>, FALSE, None), SetSfcPortPairGroup(n1, <<y>>, TRUE, n2),
     UnsetSfcPortPairGroup(n1, <<x, gone>>, FALSE), UnsetSfcPortPairGroup(n1, <<>>, TRUE),
     SetSfcPortChain(n1, <<x, y>>, TRUE, None), SetPortPairGroups(n1, <<y>>, FALSE, None),
     SetPortPairGroups(n1, <<x, y>>, TRUE, None), SetPortPairGroups(n1, <<>>, TRUE, None),
     UnsetSfcPortChain(n1, <<x, gone>>, FALSE), UnsetPortPairGroups(n1, <<x>>)}

(* Changes in one request, or two. *)
Changing ==
    {FirewallPolicyInsertRule(n1, <<y, x>>), FirewallPolicyRemoveRule(n1, x),
     CreateBgpvpnResAssoc(n1, y), DeleteBgpvpnResAssoc(n1, <<x, y>>),
     SetNetworkTrunk(n1, <<y>>, None), SetNetworkTrunk(n1, <<y>>, n2),
     SetNetworkTrunk(n1, <<>>, None), UnsetNetworkTrunk(n1, <<x>>),
     AddInterfaceRouter(n1, y), RemoveInterfaceRouter(n1, x),
     SetGatewayRouter(n1, y), RemoveGatewayRouter(n1),
     FwInsertRule(n1, <<y, x>>), FwRemoveRule(n1, x),
     UpdateCommand(n1, n2), UpdateCommand(n1, None),
     AddNetworkToDhcpAgent(i1, y), RemoveNetworkFromDhcpAgent(i1, x),
     AddRouterToL3Agent(i2, y), RemoveRouterFromL3Agent(i2, x),
     SetFirewallRule(n1, n2), UnsetFirewallRule(n1), SetSfcPortPair(n1, n2),
     SetSfcFlowClassifier(n1, n2)}

(* Creations, deletions and looks. *)
Making ==
    {CreateFirewallGroup(n1, <<x>>), CreateFirewallPolicy(n1, <<gone>>),
     CreateFirewallRule(n2), CreateSfcFlowClassifier(n1, <<x>>),
     CreateSfcPortPair(n1, <<x>>), CreateSfcPortPairGroup(n1, <<x>>),
     CreateSfcPortChain(n1, <<x>>), CreateBgpvpn(n1, <<x>>),
     CreateNetworkTrunk(n1, <<x>>), CreateCommand(n2)}

Deleting ==
    {DeleteFirewallGroup(<<n1, n2>>), DeleteFirewallPolicy(<<n2, n1>>),
     DeleteFirewallRule(<<n1>>), DeleteBgpvpn(<<n1, n2>>),
     DeleteNetworkTrunk(<<n1, n2>>), DeleteSfcFlowClassifier(n1),
     DeleteSfcPortPair(n1), DeleteSfcPortPairGroup(n1), DeleteSfcPortChain(n1),
     DeleteCommand(<<n2, n1>>), Purge}

Looking ==
    {ListFirewallGroup, ListFirewallPolicy, ListFirewallRule,
     ListSfcFlowClassifier, ListSfcPortPair, ListSfcPortPairGroup,
     ListSfcPortChain, ListBgpvpn, ListNetworkTrunk, ListCommand,
     ListBgpvpnResAssoc(n1), ListNetworkSubport(n1), ShowFirewallGroup(n1),
     ShowFirewallPolicy(n1), ShowFirewallRule(n1), ShowSfcFlowClassifier(n1),
     ShowSfcPortPair(n1), ShowSfcPortPairGroup(n1), ShowSfcPortChain(n1),
     ShowBgpvpn(n1), ShowBgpvpnResAssoc(n1, x), ShowNetworkTrunk(n1),
     ShowCommand(n1), ListNetworksOnDhcpAgent, ListRoutersOnL3Agent,
     ListDhcpAgentsHostingNetwork(n1), ListL3AgentsHostingRouter(n1)}

ToAfc ==
    {SendConfigToAfc(TRUE, n1, y), DeleteConfigFromAfc(TRUE, n1, x),
     CreateOrUpdateVrf(TRUE, n2, y), DeleteOrUpdateVrf(TRUE, n2, x),
     SendConfigToAfc(FALSE, n1, y)}

(* More of the older commands. *)
Older ==
    {AddBGPSpeakerToDRAgent(i1, y), RemoveBGPSpeakerFromDRAgent(i1, x),
     ListBGPSpeakersOnDRAgent, ListDRAgentsHostingBGPSpeaker(n1),
     AddPeerToSpeaker(n1, y), RemovePeerFromSpeaker(n1, x),
     AddNetworkToSpeaker(n2, gone), RemoveNetworkFromSpeaker(n1, y),
     ListRoutesAdvertisedBySpeaker(n1), AssociateFloatingIP(i1, y),
     DisassociateFloatingIP(i1), AssociateFlavor(n1, y),
     DisassociateFlavor(n1, x)}

AllWorkloads ==
    [users |-> Edits \cup Changing \cup Making \cup Deleting \cup Looking,
     changes |-> Making \cup Deleting \cup Changing,
     making |-> Making \cup Deleting,
     older |-> Older,
     afc |-> ToAfc]

AllSetups ==
    {Setup(1, TRUE, 1, FALSE, {i2}, n2, "users"),
     Setup(1, FALSE, 1, TRUE, {}, n1, "changes"),
     Setup(0, TRUE, 2, FALSE, {}, n2, "making"),
     Setup(1, TRUE, 2, FALSE, {}, n2, "older"),
     Setup(0, FALSE, 1, TRUE, {}, n2, "afc")}

===============================================================================
