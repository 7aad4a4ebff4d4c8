---------------------------- MODULE ProductConfig ----------------------------
(***************************************************************************)
(* The values configure_product writes for one node of an n-node cluster: *)
(* the port offset in carbon.xml, the broker port in jndi.properties, the *)
(* gateway server URL and throttling URL groups in api-manager.xml, and   *)
(* the rsync commands appended to the cron script in the workspace.       *)
(*                                                                         *)
(* Text is modelled where the code treats it as text: jndi.properties is  *)
(* a sequence of characters and str.replace works on it; node addresses   *)
(* are built by concatenating decimal strings.  A run of deploy.py may be *)
(* repeated in the same workspace: the product tree is extracted afresh,  *)
(* the rsync script in the workspace is not.                              *)
(***************************************************************************)
EXTENDS Naturals, Sequences, SequencesExt

CONSTANTS
    Offsets,      \* values of the Offset property
    NodeCounts,   \* values of the NodeCount property
    MaxRuns       \* bound on invocations of deploy.py in one workspace

VARIABLES
    offset, nodeCount, nodeType,   \* the node's properties
    pc,          \* configure_product step about to run
    runs,        \* invocations so far
    portOffset,  \* carbon.xml Ports/Offset
    jndi,        \* jndi.properties text
    serverUrl,   \* api-manager.xml APIGateway/.../ServerURL as [host, port]
    publisher,   \* children appended to ThrottlingConfigurations/DataPublisher
    rsyncScript, \* commands in the workspace's rsync cron script: [peer, dir]
    docs         \* carbon.xml's appended host elements, the registry and
                 \* user-mgt descriptors, and the two site.json files

vars == <<offset, nodeCount, nodeType, pc, runs, portOffset, jndi, serverUrl,
          publisher, rsyncScript, docs>>

-----------------------------------------------------------------------------
(* Decimal text.                                                          *)

DigitChar == <<"0", "1", "2", "3", "4", "5", "6", "7", "8", "9">>

\* str(n) for n >= 0, as a sequence of characters.
RECURSIVE Str(_)
Str(n) == IF n < 10 THEN <<DigitChar[n + 1]>>
          ELSE Str(n \div 10) \o <<DigitChar[(n % 10) + 1]>>

\* The number whose decimal text is the concatenation of str(a) and str(b).
ConcatDec(a, b) == a * (10 ^ Len(Str(b))) + b

\* s.replace(old, new): leftmost, non-overlapping occurrences.
RECURSIVE Replace(_, _, _)
Replace(s, old, new) ==
  IF Len(s) < Len(old) THEN s
  ELSE IF SubSeq(s, 1, Len(old)) = old
       THEN new \o Replace(SubSeq(s, Len(old) + 1, Len(s)), old, new)
       ELSE <<Head(s)>> \o Replace(Tail(s), old, new)

\* old in s
ContainsText(s, old) ==
  \E i \in 1..(Len(s) - Len(old) + 1) : SubSeq(s, i, i + Len(old) - 1) = old

-----------------------------------------------------------------------------
(* const.py                                                                *)

MGT_HTTPS == 9443
THROTTLE_PUBLISHER == 9611
THROTTLE_AUTH == 9711
NIO_HTTP == 8280
NIO_HTTPS == 8243
JNDI_PORT == 5672
SYNC_DIRS == <<"/repository/deployment/server/", "/repository/tenants/">>
MASTER == "MASTER"

\* The broker URL line of the shipped jndi.properties:
\* ...brokerlist='tcp://localhost:5672'
JndiPrefix == <<"'", ":">>
JndiSuffix == <<"'">>
ShippedJndi == JndiPrefix \o Str(JNDI_PORT) \o JndiSuffix

\* An address 10.0.1.<octet>: NODE_IP_PREFIX is "10.0.1.1", so the last
\* octet is "1" followed by what the code appends.
Address(octet) == <<10, 0, 1, octet>>

\* The shipped ServerURL, built from ${carbon.local.ip} and
\* ${mgt.transport.https.port} placeholders.
ShippedServerUrl == [host |-> <<>>, port |-> 0]

get_port_value(port) == offset + port

\* host_name: the LBHost property.
HOST == "lb"

\* The files as extracted: no host elements appended to carbon.xml, the
\* product's own registry and user-mgt descriptors and site.json files.
ShippedDocs ==
  [hostElems |-> <<>>, registry |-> "shipped", userMgt |-> "shipped",
   gateway |-> <<>>, storeUrl |-> "", store |-> [proxy |-> "", allow |-> <<>>],
   publisherProxy |-> ""]

\* static-configs/product-apim/store_site.json's allow-list.
StaticStoreAllow == <<"localhost">>

\* Mutant: no special case for node 1, which becomes "1" + "0".
ThrottleNodeAddress_no_special(nodeId) == Address(ConcatDec(1, (nodeId - 1) * 10))

\* Node 1 gets the literal "00" appended, giving octet 100.
ThrottleNodeAddress(nodeId) ==
  IF nodeId = 1 THEN Address(100) ELSE Address(ConcatDec(1, (nodeId - 1) * 10))

\* Mutant: node 1's address comes from the general formula, "1" + "0".
MasterAddress_general == Address(ConcatDec(1, 0))

\* configure_apim_xml: the management server of a slave is node 1.
MasterAddress == Address(100)

\* get_rsync_root_path has no special case for node 1.
get_rsync_root_path(nodeId) == Address(ConcatDec(1, (nodeId - 1) * 10))

\* get_throttling_urls: "{scheme://ip:port}," per node, then the trailing
\* character cut by node_str[0:-1].  With no nodes the cut removes the
\* '>' of the opening tag instead.
get_throttling_urls(scheme, port) ==
  LET body == FoldLeft(LAMBDA acc, k : acc \o
                         <<"{", [scheme |-> scheme, host |-> ThrottleNodeAddress(k),
                                 port |-> get_port_value(port)], "}", ",">>,
                       <<>>, [k \in 1..nodeCount |-> k])
      open == <<"<" \o scheme, ">">>
      node_str == open \o body
  IN SubSeq(node_str, 1, Len(node_str) - 1) \o <<"</" \o scheme \o ">">>

-----------------------------------------------------------------------------

Init ==
  /\ offset \in Offsets
  /\ nodeCount \in NodeCounts
  /\ nodeType \in {MASTER, "SLAVE"}
  /\ pc = "extract"
  /\ runs = 1
  /\ portOffset = 0
  /\ jndi = ShippedJndi
  /\ serverUrl = ShippedServerUrl
  /\ publisher = <<>>
  /\ rsyncScript = <<>>
  /\ docs = ShippedDocs

\* Mutant: an extraction that keeps files already present.
extract_product_keep_existing ==
  /\ pc = "extract"
  /\ pc' = "carbon"
  /\ UNCHANGED <<portOffset, jndi, serverUrl, publisher>>
  /\ UNCHANGED <<offset, nodeCount, nodeType, runs, rsyncScript, docs>>

\* ZipFile.extractall overwrites every file of the archive: the product
\* tree is back to the shipped one, the workspace script is untouched.
extract_product ==
  /\ pc = "extract"
  /\ pc' = "carbon"
  /\ portOffset' = 0
  /\ jndi' = ShippedJndi
  /\ serverUrl' = ShippedServerUrl
  /\ publisher' = <<>>
  /\ docs' = ShippedDocs
  /\ UNCHANGED <<offset, nodeCount, nodeType, runs, rsyncScript>>

\* Mutant: the Offset element receives an offset port instead of the offset.
configure_carbon_xml_port ==
  /\ pc = "carbon"
  /\ pc' = "jndi"
  /\ portOffset' = get_port_value(MGT_HTTPS)
  /\ docs' = [docs EXCEPT !.hostElems = @ \o <<"HostName", "MgtHostName">>]
  /\ UNCHANGED <<offset, nodeCount, nodeType, runs, jndi, serverUrl,
                 publisher, rsyncScript>>

\* Ports/Offset receives str(offset); HostName and MgtHostName are appended.
configure_carbon_xml ==
  /\ pc = "carbon"
  /\ pc' = "jndi"
  /\ portOffset' = offset
  /\ docs' = [docs EXCEPT !.hostElems = @ \o <<"HostName", "MgtHostName">>]
  /\ UNCHANGED <<offset, nodeCount, nodeType, runs, jndi, serverUrl,
                 publisher, rsyncScript>>

\* Returns early unless str(5672) occurs in the text; otherwise replaces
\* every occurrence by str(5672 + offset).
JndiRewrite(text, off) ==
  IF ~ContainsText(text, Str(JNDI_PORT)) THEN text
  ELSE Replace(text, Str(JNDI_PORT), Str(off + JNDI_PORT))

configure_jndi_properties ==
  /\ pc = "jndi"
  /\ pc' = "static"
  /\ jndi' = JndiRewrite(jndi, offset)
  /\ UNCHANGED <<offset, nodeCount, nodeType, runs, portOffset, serverUrl,
                 publisher, rsyncScript, docs>>

\* registry.xml and user-mgt.xml are copied from static-configs over the
\* product's own (their absence raises, see Deploy).
copy_static_configs ==
  /\ pc = "static"
  /\ pc' = "apim"
  /\ docs' = [docs EXCEPT !.registry = "static", !.userMgt = "static"]
  /\ UNCHANGED <<offset, nodeCount, nodeType, runs, portOffset, jndi,
                 serverUrl, publisher, rsyncScript>>

\* The ServerURL of a slave points at the master; the gateway endpoints
\* and the store URL name host_name; both groups are parsed with
\* ET.fromstring and appended to DataPublisher.
configure_apim_xml ==
  /\ pc = "apim"
  /\ pc' = "apps"
  /\ docs' = [docs EXCEPT !.gateway = <<[host |-> HOST, port |-> get_port_value(NIO_HTTP)],
                                         [host |-> HOST, port |-> get_port_value(NIO_HTTPS)]>>,
                           !.storeUrl = HOST]
  /\ serverUrl' = IF nodeType # MASTER
                  THEN [host |-> MasterAddress, port |-> get_port_value(MGT_HTTPS)]
                  ELSE serverUrl
  /\ publisher' = publisher \o <<get_throttling_urls("ReceiverUrlGroup", THROTTLE_PUBLISHER),
                                 get_throttling_urls("AuthUrlGroup", THROTTLE_AUTH)>>
  /\ UNCHANGED <<offset, nodeCount, nodeType, runs, portOffset, jndi, rsyncScript>>

\* Both site.json files are loaded from static-configs, given host_name as
\* reverse proxy (the store also allows it), and written into the product.
configure_apps ==
  /\ pc = "apps"
  /\ pc' = IF nodeType = MASTER THEN "rsync" ELSE "done"
  /\ docs' = [docs EXCEPT !.store = [proxy |-> HOST, allow |-> StaticStoreAllow \o <<HOST>>],
                           !.publisherProxy = HOST]
  /\ UNCHANGED <<offset, nodeCount, nodeType, runs, portOffset, jndi,
                 serverUrl, publisher, rsyncScript>>

\* Mutant: the peer loop starts at node 1, the master itself.
configure_rsync_from_one ==
  /\ pc = "rsync"
  /\ pc' = "done"
  /\ rsyncScript' = rsyncScript \o
       FoldLeft(LAMBDA acc, k : acc \o [i \in 1..Len(SYNC_DIRS) |->
                  [peer |-> get_rsync_root_path(k), dir |-> SYNC_DIRS[i]]],
                <<>>, [k \in 1..nodeCount |-> k])
  /\ UNCHANGED <<offset, nodeCount, nodeType, runs, portOffset, jndi,
                 serverUrl, publisher, docs>>

\* Opens the script in append mode and writes one command per peer node
\* 2..node_count and sync directory.
configure_rsync ==
  /\ pc = "rsync"
  /\ pc' = "done"
  /\ rsyncScript' = rsyncScript \o
       FoldLeft(LAMBDA acc, k : acc \o [i \in 1..Len(SYNC_DIRS) |->
                  [peer |-> get_rsync_root_path(k), dir |-> SYNC_DIRS[i]]],
                <<>>, [k \in 2..nodeCount |-> k])
  /\ UNCHANGED <<offset, nodeCount, nodeType, runs, portOffset, jndi,
                 serverUrl, publisher, docs>>

\* deploy.py is invoked again in the same workspace.
rerun ==
  /\ pc = "done"
  /\ runs < MaxRuns
  /\ runs' = runs + 1
  /\ pc' = "extract"
  /\ UNCHANGED <<offset, nodeCount, nodeType, portOffset, jndi, serverUrl,
                 publisher, rsyncScript, docs>>

Next ==
  \/ extract_product
  \/ configure_carbon_xml
  \/ configure_jndi_properties
  \/ copy_static_configs
  \/ configure_apim_xml
  \/ configure_apps
  \/ configure_rsync
  \/ rerun

Spec == Init /\ [][Next]_vars

-----------------------------------------------------------------------------
(* Properties                                                              *)

TypeOK ==
  /\ pc \in {"extract", "carbon", "jndi", "static", "apim", "apps", "rsync", "done"}
  /\ runs \in 1..MaxRuns
  /\ portOffset \in {0} \cup Offsets
  /\ jndi \in Seq({"'", ":"} \cup ToSet(DigitChar))
  /\ serverUrl \in [host : Seq(Nat), port : Nat]
  /\ \A i \in 1..Len(rsyncScript) : rsyncScript[i].dir \in ToSet(SYNC_DIRS)

\* Reference: node k of the cluster is 10.0.1.(100 + (k-1)*10), the
\* addresses of the spec's example (.100, .110, .120).
RefNodeAddress(k) == Address(100 + (k - 1) * 10)

RefGroup(scheme, port) ==
  <<"<" \o scheme, ">">>
  \o FoldLeft(LAMBDA acc, k : acc \o
                <<"{", [scheme |-> scheme, host |-> RefNodeAddress(k),
                        port |-> offset + port], "}">>
                \o (IF k < nodeCount THEN <<",">> ELSE <<>>),
              <<>>, [k \in 1..nodeCount |-> k])
  \o <<"</" \o scheme \o ">">>

\* Once configure_apim_xml has run in this invocation, DataPublisher holds
\* one receiver and one auth URL group, each listing every node of the
\* cluster once, in node order, at its address and offset port.
ThrottlingGroupsListCluster ==
  pc \in {"apps", "rsync", "done"} =>
    publisher = <<RefGroup("ReceiverUrlGroup", THROTTLE_PUBLISHER),
                  RefGroup("AuthUrlGroup", THROTTLE_AUTH)>>

\* Every configured invocation leaves jndi.properties with the broker at
\* exactly 5672 + Offset, however many times deploy.py ran before.
JndiBrokerPortOffset ==
  pc \in {"static", "apim", "apps", "rsync", "done"} =>
    jndi = JndiPrefix \o Str(JNDI_PORT + offset) \o JndiSuffix

\* The three places that derive node addresses agree: a slave's gateway
\* ServerURL names the first node of the throttling groups, and each rsync
\* target is the address the groups give that node.
AddressesAgree ==
  /\ serverUrl # ShippedServerUrl => serverUrl.host = ThrottleNodeAddress(1)
  /\ \A i \in 1..Len(rsyncScript) :
       \E k \in 2..nodeCount : rsyncScript[i].peer = ThrottleNodeAddress(k)

\* Once a run has configured the node, carbon.xml holds exactly one
\* HostName and one MgtHostName element: configure_carbon_xml appends
\* them on every run, so this holds only because each run extracts the
\* archive over the tree the earlier run configured.
HostElementsOnce ==
  pc \in {"jndi", "static", "apim", "apps", "rsync", "done"} =>
    docs.hostElems = <<"HostName", "MgtHostName">>

\* The largest TCP port number: the port field is 16 bits wide.
MAX_PORT == 2^16 - 1

\* The ports configure_apim_xml wrote in this invocation: the gateway
\* endpoints, a slave's ServerURL, and the endpoint record of each node
\* in both throttling groups (element 4k of a group: "<tag", ">", then
\* "{", endpoint, "}", "," per node).
WrittenPorts ==
  {docs.gateway[i].port : i \in DOMAIN docs.gateway}
  \cup (IF serverUrl # ShippedServerUrl THEN {serverUrl.port} ELSE {})
  \cup {publisher[g][4 * k].port : g \in DOMAIN publisher, k \in 1..nodeCount}

\* Every port get_port_value gives the product is a TCP port, so the
\* endpoints the node advertises can be bound and reached (spec: Offset is
\* added to every well-known port number; portOffset is any int >= 0).
PortsInRange == \A p \in WrittenPorts : p <= MAX_PORT

\* After the master's first configuration in a workspace the rsync script
\* holds one command for each peer node 2..NodeCount and each SYNC_DIRS
\* entry, and nothing else.  (A later run appends the commands again: the
\* script lives in the workspace, outside the extracted tree.)
RsyncCommandsOncePerPeerDir ==
  pc = "done" /\ nodeType = MASTER /\ runs = 1 =>
    /\ Len(rsyncScript) = (nodeCount - 1) * Len(SYNC_DIRS)
    /\ \A k \in 2..nodeCount, d \in ToSet(SYNC_DIRS) :
         \E i \in 1..Len(rsyncScript) :
           rsyncScript[i] = [peer |-> ThrottleNodeAddress(k), dir |-> d]

=============================================================================
