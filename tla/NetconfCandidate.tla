--------------------------- MODULE NetconfCandidate ---------------------------
(***************************************************************************)
(* A NETCONF session that holds the candidate lock works on its candidate  *)
(* (pkg/netconf/rpc_config.go, rpc_transaction.go).  The datastore keeps   *)
(* text, the client speaks XML, the handlers work on structures, and the   *)
(* commit hook hands the engine's structure to the VPP and FRR plugins:    *)
(* every handler converts back and forth, and judges the configuration in  *)
(* one of its forms.                                                       *)
(*                                                                         *)
(* A handler is one step here; CommitCoordination has the interleavings of *)
(* a commit and of an edit with other sessions.                            *)
(***************************************************************************)
EXTENDS NetconfXML, FrrGenerator, VppPlans

CONSTANTS
  Initial,        \* configurations the router starts with
  Edits,          \* documents a client may send
  Others,         \* configurations other clients (CLI, gRPC) may commit
  MaxEdits,       \* bound: edits, copies and commits of others
  None

VARIABLES
  running,    \* running text: lines, or None before the first commit
  previous,   \* the running text that the last commit replaced
  candidate,  \* candidate text of the session, or None
  meant,      \* the structure edit-config or copy-config last validated
  edits       \* edits, copies and commits of others so far

vars == <<running, previous, candidate, meant, edits>>

Init ==
  /\ running \in {ToSetCommands(c) : c \in Initial} \cup {None}
  /\ previous = running
  /\ candidate = None
  /\ meant = None
  /\ edits = 0

Count == edits < MaxEdits /\ edits' = edits + 1

(***************************************************************************)
(* Reading the datastore.                                                  *)
(***************************************************************************)
ConfigToText(c) == ToSetCommands(c)

TextToConfig(text) == IF text = {} THEN {} ELSE Parse(text)

\* readRunningConfigText, with emptyOnMissing.
readRunningConfigText == IF running = None THEN {} ELSE running

readCandidateOrRunningConfigText == IF candidate = None THEN readRunningConfigText ELSE candidate

\* The text behind a <source>, or None.
SourceText(source) == IF source = "running" THEN running ELSE readCandidateOrRunningConfigText

\* The size limit, then Config.Validate.
validateConfigSemantics(c) == ValidateConfig(c) /\ ConfigValidate(c)

\* SaveCandidate of a structure.
Save(c) == candidate' = ConfigToText(c) /\ meant' = c

(***************************************************************************)
(* The handlers.  One that answers with an error leaves everything alone.  *)
(***************************************************************************)
\* The merged structure is validated, which fills in the host name, and
\* written as text; nobody reads the text back.
handleEditConfig(edit, defaultOp, testOption) ==
  /\ testOption # "test-only"
  /\ Count
  /\ \E new \in {XMLToConfig(edit)}, existing \in {TextToConfig(readCandidateOrRunningConfigText)} :
       /\ new # NotRead /\ existing # NotParsed
       /\ \E merged \in {ApplyConfigEdit(existing, new, defaultOp)} :
            IF validateConfigSemantics(merged) THEN Save(WithHostName(merged))
                                               ELSE UNCHANGED <<candidate, meant>>
  /\ UNCHANGED <<running, previous>>

\* copy-config of an inline configuration: the text is made before Validate
\* fills in the host name.
handleCopyConfigInline(edit) ==
  /\ Count
  /\ \E new \in {XMLToConfig(edit)} :
       /\ new # NotRead
       /\ IF validateConfigSemantics(new) THEN Save(new) ELSE UNCHANGED <<candidate, meant>>
  /\ UNCHANGED <<running, previous>>

\* copy-config of a datastore: its text is validated and copied as it is.
handleCopyConfig(source) ==
  /\ Count
  /\ SourceText(source) # None
  /\ \E c \in {TextToConfig(SourceText(source))} :
       /\ c # NotParsed
       /\ IF validateConfigSemantics(c) THEN candidate' = SourceText(source) /\ meant' = c
                                        ELSE UNCHANGED <<candidate, meant>>
  /\ UNCHANGED <<running, previous>>

\* delete-config and discard-changes: DeleteCandidate, which may find none.
handleDeleteConfig ==
  candidate' = None /\ meant' = None /\ UNCHANGED <<running, previous, edits>>

handleDiscardChanges ==
  candidate' = None /\ meant' = None /\ UNCHANGED <<running, previous, edits>>

\* The configuration behind a <source>; NotParsed is an error.
validateSourceConfig(source) ==
  IF SourceText(source) = None THEN NotParsed ELSE TextToConfig(SourceText(source))

\* What validate and get-config answer; neither changes anything.
handleValidate(source) ==
  validateSourceConfig(source) # NotParsed /\ validateConfigSemantics(validateSourceConfig(source))

handleGetConfig(source) ==
  IF validateSourceConfig(source) = NotParsed THEN NotParsed
  ELSE ConfigToXML(validateSourceConfig(source))

(***************************************************************************)
(* Commit.  The hook parses and validates once more and asks the engine    *)
(* and its plugins.  Whether they succeed is another module's matter.      *)
(***************************************************************************)
EngineConfig(text) == IF text = None THEN {} ELSE FromLegacyConfig(WithHostName(TextToConfig(text)))

EngineValidate(old, new) ==
  /\ ModelValidate(new)
  /\ \A diff \in {ComputeDiff(old, Clone(new))} : vppValidateChanges(diff, old, new) /\ frrValidateChanges(diff, new)

CommitHook(text) ==
  \A old \in {EngineConfig(running)}, new \in {EngineConfig(text)} :
    EngineValidate(old, new) /\ HasChanges(ComputeDiffOfConverted(old, new))

handleCommit ==
  /\ candidate # None
  /\ \E c \in {TextToConfig(candidate)} :
       /\ c # NotParsed
       /\ IF validateConfigSemantics(c) /\ CommitHook(candidate)
            THEN previous' = running /\ running' = candidate /\ candidate' = None /\ meant' = None
            ELSE UNCHANGED <<running, previous, candidate, meant>>
  /\ UNCHANGED edits

\* Another client commits, between an unlock and a lock of this session.
CommitOfOther(c) ==
  /\ Count
  /\ previous' = running
  /\ running' = ConfigToText(c)
  /\ UNCHANGED <<candidate, meant>>

DefaultOperation == {"merge", "replace", "none"}
TestOption == {"test-then-set", "test-only"}

Next ==
  \/ \E edit \in Edits, op \in DefaultOperation, test \in TestOption : handleEditConfig(edit, op, test)
  \/ \E edit \in Edits : handleCopyConfigInline(edit)
  \/ \E source \in {"running", "candidate"} : handleCopyConfig(source)
  \/ handleDeleteConfig
  \/ handleDiscardChanges
  \/ handleCommit
  \/ \E c \in Others : CommitOfOther(c)

Spec == Init /\ [][Next]_vars

-----------------------------------------------------------------------------
(***************************************************************************)
(* Properties.                                                             *)
(***************************************************************************)
Leaf == Node \ Inner

LeavesOf(c) == Of(c, Leaf)

\* What the serializer writes and the parser refuses: a second static route
\* to one prefix, which merge appends; a rate limit the validator does not
\* look at; and a text that the serializer writes as it is and the lexer takes
\* for a number, for the keyword or for several words.
SecondRoute(c) == \E r \in Of(c, {"route"}) : r[3] # "1st"

RateLimitTooHigh(c) == ~Formats(c, Each({"per-ip", "per-user"}, RateLimit))

\* The nodes whose own argument is a Go int.
IntegerField ==
  {"service.port", "node.priority", "unit", "autonomous-system", "distance", "profile.multiplier",
   "profile.receive", "profile.transmit", "peer.multiplier", "peer.receive", "peer.transmit", "vni",
   "vlan-id", "vrrp.priority", "peer-as", "metric", "priority", "local-preference", "queue",
   "shaping-rate", "ssh.port", "per-ip", "per-user"}

\* A name or text that is a number or the keyword is never quoted, and the
\* parser takes it only for an area and a VRRP group; one with a blank is
\* quoted where the parser takes a string.
UnreadableText(c) ==
  \E s \in Of(c, Leaf \ {"area-id"}) : \E i \in DOMAIN Args(s) :
    LET owner == Owner[s[1]][i]
    IN  /\ owner \notin IntegerField \cup {"area", "vrrp"}
        /\ \/ Args(s)[i] \in Number \cup Keyword
           \/ Args(s)[i] \in Phrase /\ "string" \notin parserTakes[owner]

\* The text has no place for an area-id that is not the area's name.
AreasByName(c) == WithAreaID(c \ Of(c, {"area-id"}))

\* A candidate that edit-config or copy-config has confirmed reads back, from
\* the text the datastore keeps, as the structure that was validated: no
\* parameter is lost, added or changed on the way, whatever quoting, defaults
\* and zero values it has, and no merge leaves a parameter behind whose list
\* entry is gone.  The exceptions are an OSPF area's area-id, which becomes
\* the area's name, and the texts above, which the parser refuses.  A list
\* entry without parameters is not in the text at all.
CandidateReadsBack ==
  candidate # None =>
    /\ WellFormed(meant)
    /\ IF SecondRoute(meant) \/ RateLimitTooHigh(meant) \/ UnreadableText(meant)
       THEN TextToConfig(candidate) = NotParsed
       ELSE LeavesOf(TextToConfig(candidate)) = LeavesOf(AreasByName(meant))

\* get-config followed by copy-config of its answer changes nothing of what
\* the XML can express.  Policies, users and two ssh leaves have no elements.
NoElement == DOMAIN PolicyTree \cup {"user", "password", "role", "ssh-key", "ssh.enabled",
                                     "ssh.listen-address"}

GetConfigIsComplete ==
  \A source \in {"running", "candidate"} :
    LET xml == handleGetConfig(source)
        expressible == {s \in validateSourceConfig(source) : s[1] \in Leaf /\ s[1] \notin NoElement}
    IN  xml # NotParsed => LeavesOf(decodeConfigXML(xml)) = expressible

\* A candidate that passed the element limit is answered by get-config with at
\* most that many elements: the limit counts what the writer writes.
SizeIsChecked ==
  candidate # None /\ TextToConfig(candidate) # NotParsed =>
    ElementsWritten(ConfigToXML(TextToConfig(candidate))) <= MaxXMLElements

\* What the generators refuse although Config.Validate accepts it.
GeneratorGap(c) ==
  \/ ~frrValidateVRRPConfig(c)
  \/ \E s, t \in Of(c, {"area.interface"}) : s # t /\ s[2] = t[2] /\ Value(s) = Value(t)
  \/ \E m, n \in ospfNetworks(c) : m # n /\ ospfPrefix(m) = ospfPrefix(n)
  \/ \E h, k \in Of(c, {"next-hop"}) : h # k /\ Subnet[h[2]] = Subnet[k[2]] /\ Value(h) = Value(k)
  \/ ~(interfaceNames(c) \subseteq Hardware)
  \/ \E v, w \in L3(c) : v # w /\ Field(c, v, "vni.instance") = Field(c, w, "vni.instance")
  \/ \E v \in Of(c, {"vni"}) : evpnDestination(c, v) = {} \/ ~Has(c, v, "source-interface")
  \/ \E v \in Of(c, {"vni"}) : \A a \in evpnSourceAddress(c, v) : \E d \in evpnDestination(c, v) : ~SameFamily(a, d)
  \/ \E m, n \in Of(c, {"neighbor"}) : m # n /\ Value(m) = Value(n)
  \/ Of(c, {"vni"}) # {} /\ Of(c, {"autonomous-system"}) = {}
  \/ ~HasTablePlans(c)

\* A candidate that <validate> confirms is not refused by commit: the engine's
\* own validator, the dry run of the VPP plugin and the FRR generator accept
\* what Config.Validate accepts, but for the gaps listed above.
ValidatedIsCommitted ==
  candidate # None /\ handleValidate("candidate") =>
    \A c \in {validateSourceConfig("candidate")} : ~GeneratorGap(c) =>
      \A old \in {EngineConfig(running)}, new \in {EngineConfig(candidate)} : EngineValidate(old, new)

\* The plugins get every parameter of the configuration that was committed:
\* the conversion to the engine's structure, the copies the engine makes and
\* the conversion back lose nothing.
EngineKeepsAll ==
  running # None =>
    LeavesOf(ToLegacyConfig(Clone(EngineConfig(running)))) = LeavesOf(WithHostName(TextToConfig(running)))

\* When the running configuration changes so that the FRR configuration file
\* generated from it changes, the difference has a flag that makes the FRR
\* plugin apply it: FRR never keeps running on an outdated file.
FRRChangesAreSeen ==
  \A c \in {[text \in {previous, running} |-> EngineConfig(text)]} :
    LET legacy == {ToLegacyConfig(c[text]) : text \in DOMAIN c}
    IN  \/ Cardinality({GenerateFRRConfigFile(l) : l \in legacy}) = 1
        \/ hasFRRRelevantChanges(ComputeDiff(c[previous], c[running]))

\* The transactional backend, where the plugin chooses it, accepts the
\* configuration and expresses every line of the file it replaces, except the
\* host name and the interface of a multihop BFD session.
TransactionalCarriesAll ==
  \A c \in {ToLegacyConfig(EngineConfig(running))} :
      running # None /\ Generates(c) /\ ~requiresFRRFileBackend(c) =>
        /\ MgmtAccepts(c)
        /\ \A line \in GenerateFRRConfigFile(c) :
             \/ HasMgmtOperation(c, line)
             \/ line[1] = "hostname"
             \/ line[1] = "peer.interface" /\ Has(c, Up(line, "peer"), "peer.multihop")

\* A term of a policy matches, in FRR, the prefixes of the lists it names and
\* no others, through the split by family, the lookup by name and the merging;
\* unless a list is configured under the name that the split of another takes.
TermMatchesItsLists ==
  LET c == ToLegacyConfig(EngineConfig(running))
      taken == \E l \in Of(c, {"prefix-list"}) : isSplit(c, l) /\ <<"prefix-list", V6Name[Value(l)]>> \in c
  IN  running # None /\ Generates(c) /\ ~taken =>
        \A t \in Of(c, {"term"}) :
          UNION {l.prefixes : l \in aggregateRouteMapPrefixListMatches(c, t)} =
            UNION {Field(c, <<"prefix-list", n>>, "prefix") : n \in Field(c, t, "from.prefix-list")}
=============================================================================
