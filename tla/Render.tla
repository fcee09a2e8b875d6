-------------------------------- MODULE Render --------------------------------
(***************************************************************************)
(* core/render.py: what is attached to an agent becomes the lines of the   *)
(* files its daemon reads.  build_render_inputs collects the registered    *)
(* records with their credentials, in the order of their names, and        *)
(* refuses what is incomplete; the renderer of the agent's type refuses    *)
(* what it cannot express and writes the rest.                             *)
(*                                                                         *)
(* A line has a key, the place the daemon looks at: a file and a name in   *)
(* it.  Of two lines with one key the daemon sees the last.  Endpoints,    *)
(* models, hosts, ports and the lists of a channel are data left out; a    *)
(* credential is one value, also where the code keeps two or three.        *)
(***************************************************************************)
EXTENDS Naturals, Sequences, FiniteSets

Agents == {"hermes", "zeroclaw", "openclaw", "ethos"}
Bearers == {"openrouter", "anthropic", "openai", "zai", "opencode", "opencode-go"}
ProviderTypes == Bearers \cup {"litellm", "ollama", "bedrock", "codex"}
IntegrationTypes == {"github", "git", "gitlab", "linear", "notion", "brave", "atlassian",
                     "slack-user", "slack-cookie"}
Slacks == {"slack-user", "slack-cookie"}
\* The names of integrations, as _integration_slug leaves them.
Slugs == {"slack", "work"}
\* A credential once _clean_secret has been at it; "" when missing or degenerate.
Secrets == {"", "k1", "k2"}

VARIABLES
  agent,        \* type of the agent
  gateway,      \* its record has a gateway section
  providers,    \* what is attached, in order
  channels,
  integrations,
  stage,        \* how far the rendering is
  lines         \* the lines of the files

vars == <<agent, gateway, providers, channels, integrations, stage, lines>>
attachments == <<agent, gateway, providers, channels, integrations>>

Providers == [type : ProviderTypes, key : Secrets, role : {"primary", "vision"}]
Channels == [type : {"discord", "slack"}, token : Secrets]
Integrations == [type : IntegrationTypes, slug : Slugs, key : Secrets]
\* At most two of a kind are attached.
UpTo2(S) == UNION {[1 .. n -> S] : n \in 0 .. 2}

TypeOK ==
  /\ agent \in Agents /\ gateway \in BOOLEAN
  /\ providers \in Seq(Providers) /\ channels \in Seq(Channels)
  /\ integrations \in Seq(Integrations)
  /\ stage \in {"attached", "inputs", "rendered", "refused"}
  /\ lines # <<>> => stage = "rendered"

\* provider_attachments.validate: hermes has one primary and one of each role besides,
\* the others at most one provider.
Attachable(ps) ==
  /\ \A i, j \in DOMAIN ps : ps[i].role = ps[j].role => i = j
  /\ agent = "hermes" /\ ps # <<>> => \E i \in DOMAIN ps : ps[i].role = "primary"
  /\ agent # "hermes" => Len(ps) <= 1 /\ \A i \in DOMAIN ps : ps[i].role = "primary"
\* Rendering the lines of one kind asks nothing of the others, so one kind varies at once.
Usual == <<[type |-> "anthropic", key |-> "k1", role |-> "primary"]>>
Init ==
  /\ agent \in Agents /\ gateway \in BOOLEAN
  /\ \/ providers \in UpTo2(Providers) /\ channels = <<>> /\ integrations = <<>>
     \/ providers = Usual /\ channels \in UpTo2(Channels) /\ integrations = <<>>
     \/ providers = Usual /\ channels = <<>> /\ integrations \in UpTo2(Integrations)
  /\ Attachable(providers)
  /\ stage = "attached" /\ lines = <<>>

(***************************************************************************)
(* build_render_inputs.                                                    *)
(***************************************************************************)
Support ==
  [ethos |-> {"openrouter", "anthropic", "openai", "codex"},
   hermes |-> ProviderTypes \ {"zai", "codex"},
   zeroclaw |-> ProviderTypes \ {"zai", "codex", "bedrock"},
   openclaw |-> ProviderTypes \ {"codex"}]

Keyless == {"ollama", "codex"}
Complete(p) == p.type \in Support[agent] /\ (p.type \notin Keyless => p.key # "")
\* The bundle of hermes: one key of a bearer type and one AWS triple per process.
SharedKeys(ps) ==
  \A i, j \in DOMAIN ps :
    ps[i].type = ps[j].type /\ ps[i].type \in Bearers \cup {"bedrock"} => ps[i].key = ps[j].key

Primary == CHOOSE p \in {providers[i] : i \in DOMAIN providers} : p.role = "primary"
\* The others but hermes have one provider; of hermes every one must be complete.
ProvidersComplete ==
  /\ providers # <<>> /\ Complete(Primary)
  /\ agent = "hermes" => SharedKeys(providers) /\ \A i \in DOMAIN providers : Complete(providers[i])
ChannelsComplete == \A i \in DOMAIN channels : channels[i].token # ""
IntegrationsComplete ==
  \A i \in DOMAIN integrations : integrations[i].type # "git" => integrations[i].key # ""

BuildRenderInputs ==
  /\ stage = "attached"
  /\ stage' = IF ProvidersComplete /\ ChannelsComplete /\ IntegrationsComplete
              THEN "inputs" ELSE "refused"
  /\ UNCHANGED <<attachments, lines>>

(***************************************************************************)
(* What each renderer refuses.                                             *)
(***************************************************************************)
\* One channel of a type, and of zeroclaw one Discord channel.
OneOfAType ==
  \A i, j \in DOMAIN channels : channels[i].type = channels[j].type => i = j
ChannelsFit ==
  OneOfAType /\ (agent = "zeroclaw" => \A i \in DOMAIN channels : channels[i].type = "discord")

IntegrationSupport ==
  [hermes |-> IntegrationTypes,
   openclaw |-> IntegrationTypes,
   zeroclaw |-> {"github", "git", "brave"} \cup Slacks,
   ethos |-> IntegrationTypes]
\* The MCP servers: hermes has Atlassian under the name of the integration and Slack
\* under a pinned one, the other two only Slack.
McpSlug(i) == IF integrations[i].type \in Slacks THEN "slack" ELSE integrations[i].slug
McpServers ==
  {i \in DOMAIN integrations :
     \/ integrations[i].type \in Slacks /\ agent # "ethos"
     \/ integrations[i].type = "atlassian" /\ agent = "hermes"}
\* Mutant: one set of names per type of integration.
SlugsByType ==
  \A i, j \in McpServers :
    McpSlug(i) = McpSlug(j) /\ integrations[i].type = integrations[j].type => i = j
SlugsFit == \A i, j \in McpServers : McpSlug(i) = McpSlug(j) => i = j
IntegrationsFit ==
  /\ \A i \in DOMAIN integrations : integrations[i].type \in IntegrationSupport[agent]
  /\ SlugsFit

Fits ==
  /\ agent \in {"zeroclaw", "ethos"} => gateway
  /\ ChannelsFit /\ IntegrationsFit

(***************************************************************************)
(* What each renderer writes.                                              *)
(***************************************************************************)
Line(file, name, value) == [key |-> <<file, name>>, value |-> value]
Nowhere == <<>>

EnvKeyed == {"openrouter", "anthropic", "openai"}
\* The template of the primary: an environment variable, or a line of the model block.
HermesPrimary(p) ==
  CASE p.type \in EnvKeyed \cup {"bedrock"} -> <<Line("env", p.type, p.key)>>
    [] p.type \in {"litellm", "opencode", "opencode-go"} -> <<Line("config", "model", p.key)>>
    [] OTHER -> Nowhere
\* aux_api_keys, aux_aws_credentials and the auxiliary blocks: what the primary has
\* brought is left out, and a key no branch of the template knows is not written.
HermesAuxiliary(p, primary) ==
  CASE p.type \in EnvKeyed \cup {"bedrock"} /\ p.type # primary.type -> <<Line("env", p.type, p.key)>>
    [] p.type = "litellm" -> <<Line("config", p.role, p.key)>>
    [] OTHER -> Nowhere
\* Of each role there is one at most, and of the auxiliary ones the model has one.
Auxiliaries == {i \in DOMAIN providers : providers[i].role # "primary"}
HermesProviders ==
  HermesPrimary(Primary)
    \o (IF Auxiliaries = {} THEN Nowhere
        ELSE HermesAuxiliary(providers[CHOOSE i \in Auxiliaries : TRUE], Primary))
ZeroclawProvider(p) ==
  IF p.type \in Keyless THEN Nowhere ELSE <<Line("config", "provider", p.key)>>
\* A type the template does not map is silent on purpose.
OpenclawProvider(p) ==
  CASE p.type \in EnvKeyed \cup {"zai"} -> <<Line("env", p.type, p.key)>>
    [] p.type = "litellm" -> <<Line("config", "models.providers", p.key)>>
    [] OTHER -> Nowhere
EthosProvider(p) == IF p.type = "codex" THEN Nowhere ELSE <<Line("env", p.type, p.key)>>
ProviderLines ==
  CASE agent = "hermes" -> HermesProviders
    [] agent = "zeroclaw" -> ZeroclawProvider(Primary)
    [] agent = "openclaw" -> OpenclawProvider(Primary)
    [] OTHER -> EthosProvider(Primary)

ChannelLines ==
  [i \in DOMAIN channels |->
     Line(IF agent = "zeroclaw" THEN "config" ELSE "env", channels[i].type, channels[i].token)]

\* The integrations with a line in the environment file, one variable per type.
Scalars ==
  [hermes |-> {"gitlab", "linear", "notion", "brave"},
   openclaw |-> {"gitlab", "linear", "notion", "brave", "atlassian"},
   zeroclaw |-> {"brave"},
   ethos |-> {}]
Githubs == {i \in DOMAIN integrations : integrations[i].type = "github"}
IntegrationLine(i) ==
  LET it == integrations[i] IN
  CASE i \in McpServers -> <<Line("mcp", McpSlug(i), it.key)>>
    [] i \notin McpServers /\ it.type = "github" -> <<Line("env github", it.slug, it.key)>>
    [] i \notin McpServers /\ it.type \in Scalars[agent] -> <<Line("env", it.type, it.key)>>
    [] OTHER -> Nowhere
\* GITHUB_TOKEN, after everything else: the token of the last one.
LastGithub ==
  IF Githubs = {} THEN Nowhere
  ELSE LET last == CHOOSE i \in Githubs : \A j \in Githubs : j <= i IN
       <<Line("env", "github", integrations[last].key)>>
IntegrationLines ==
  (IF Len(integrations) >= 1 THEN IntegrationLine(1) ELSE Nowhere)
    \o (IF Len(integrations) = 2 THEN IntegrationLine(2) ELSE Nowhere)
    \o LastGithub

Render ==
  /\ stage = "inputs"
  /\ IF Fits
     THEN stage' = "rendered" /\ lines' = ProviderLines \o ChannelLines \o IntegrationLines
     ELSE stage' = "refused" /\ UNCHANGED lines
  /\ UNCHANGED attachments

Next == BuildRenderInputs \/ Render
Spec == Init /\ [][Next]_vars

(***************************************************************************)
(* What the daemon gets.                                                   *)
(***************************************************************************)
\* What the daemon finds under a key: the last line, "" when there is none.
Found(key) ==
  LET at == {n \in DOMAIN lines : lines[n].key = key} IN
  IF at = {} THEN "" ELSE lines[CHOOSE n \in at : \A k \in at : k <= n].value
\* Where the daemon looks for the credential of provider p.
ProviderKey(p) ==
  CASE agent = "hermes" /\ p.type \in EnvKeyed \cup {"bedrock"} -> <<"env", p.type>>
    [] agent = "hermes" /\ p.type \notin EnvKeyed \cup {"bedrock"} ->
         <<"config", IF p.role = "primary" THEN "model" ELSE p.role>>
    [] agent = "zeroclaw" -> <<"config", "provider">>
    [] agent = "openclaw" /\ p.type = "litellm" -> <<"config", "models.providers">>
    [] OTHER -> <<"env", p.type>>
Delivers(p) == p.type \notin Keyless => Found(ProviderKey(p)) = p.key
\* Types whose credentials no line carries: openclaw's on purpose, hermes's auxiliary
\* ones not (AuxiliaryRendered).
Silent(p) ==
  \/ agent = "openclaw" /\ p.type \in {"bedrock", "opencode", "opencode-go"}
  \/ agent = "hermes" /\ p.role # "primary" /\ p.type \in {"opencode", "opencode-go"}

\* What is rendered is what the daemon sees: no provider, channel or MCP server that was
\* accepted is hidden by a later line with its key, and GITHUB_TOKEN is of the last one.
NothingShadowed ==
  stage = "rendered" =>
    /\ \A i \in DOMAIN providers : Silent(providers[i]) \/ Delivers(providers[i])
    /\ \A i \in DOMAIN channels :
         Found(<<IF agent = "zeroclaw" THEN "config" ELSE "env", channels[i].type>>) = channels[i].token
    /\ \A i \in McpServers : Found(<<"mcp", McpSlug(i)>>) = integrations[i].key
    /\ Githubs # {} => Found(<<"env", "github">>) \in {integrations[i].key : i \in Githubs}

\* "Every field declared on `inputs` flows into exactly one output line": the credential of
\* every provider that is attached to a hermes agent is where its daemon looks for it.
AuxiliaryRendered ==
  stage = "rendered" /\ agent = "hermes" => \A i \in DOMAIN providers : Delivers(providers[i])
=============================================================================
