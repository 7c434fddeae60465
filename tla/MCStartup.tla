----------------------------- MODULE MCStartup -----------------------------
EXTENDS Startup, TLC

Tool(n, risk, control, retention) ==
  [name |-> n, risk |-> risk, control |-> control, retention |-> retention]
Read == Tool("read", "ReadOnly", "AutoAllow", "long")
Write == Tool("write", "Mutating", "Prompt", "long")
Stale == Tool("write", "Mutating", "Prompt", "short")
Odd == Tool("odd", "Unknown", "Prompt", "long")
Wipe == Tool("wipe", "Destructive", "Prompt", "short")
Tmp == Tool("tmp", "Mutating", "Prompt", "short")
MCTools == {Read, Write, Stale, Odd, Wipe, Tmp}

NoImports == [f \in Documents |-> {}]
Trust == [state |-> "ok", kid |-> "k1", spki |-> "s1", successor |-> "none", ad |-> TRUE]
Second(state, kid, spki) == [state |-> state, kid |-> kid, spki |-> spki]

\* An operator's loopback deployment with two tools and no anchors.
Base ==
  [host |-> "loopback", tls |-> FALSE, prod |-> FALSE, bearer |-> TRUE,
   hooks |-> [h \in Hooks |-> "unset"], channel |-> "file", trust |-> Trust,
   pinned |-> "none", secondary |-> Second("unset", "none", "none"), watch |-> FALSE,
   keys |-> "none", card |-> "operator", pem |-> "absent", jws |-> "unset",
   chain |-> {}, anchors |-> <<>>, agents |-> "unset", deny |-> {}, h1 |-> {},
   imports |-> NoImports, tools |-> <<Read, Write>>, registry |-> TRUE,
   dynamic |-> FALSE, agentType |-> "other", mode |-> "WorkspaceWrite",
   needs |-> <<>>, adapter |-> "none", memory |-> "none", sinkHalted |-> FALSE,
   fetcher |-> TRUE, corrupt |-> FALSE,
   maxLaunches |-> 1, maxRows |-> 1, maxVersion |-> 1]

\* Deployments that differ from Base where a refusal or a gate looks.
Hosts == {[Base EXCEPT !.host = "public", !.tls = t, !.bearer = b] : t, b \in BOOLEAN}
Hooked ==
  {[Base EXCEPT !.host = h, !.bearer = FALSE, !.tls = t, !.hooks[k] = v] :
     h \in {"loopback", "public"}, t \in BOOLEAN, k \in Hooks, v \in {"ok", "bad"}}
  \cup {[Base EXCEPT !.hooks["clock"] = "ok", !.prod = TRUE]}
Trusts ==
  {[Base EXCEPT !.channel = ch, !.trust.state = st, !.trust.ad = ad, !.pinned = kid] :
     ch \in {"file", "dnssec"}, ad \in BOOLEAN, kid \in {"none", "k1", "k2"},
     st \in {"ok", "missing", "bom", "not-json", "bad-schema", "bad-expiry",
             "expired", "empty"}}
  \cup {[Base EXCEPT !.channel = "dnssec", !.host = "public", !.bearer = FALSE]}
Seconds ==
  {[Base EXCEPT !.secondary = Second("ok", kid, spki), !.trust.successor = next] :
     kid \in {"k1", "k2"}, spki \in {"s1", "s2"}, next \in {"none", "k2", "k3"}}
  \cup {[Base EXCEPT !.secondary = Second(st, "none", "none")] : st \in {"missing", "not-json"}}
Cards ==
  {[Base EXCEPT !.card = c] : c \in {"missing", "manifest-missing", "digest-mismatch",
                                     "missing-placeholder"}}
  \cup {[Base EXCEPT !.card = "fixture", !.pem = p] : p \in {"absent", "match", "drift"}}
  \cup {[Base EXCEPT !.jws = j, !.anchors = <<"a">>, !.chain = ch, !.fetcher = FALSE] :
          j \in {"unset", "malformed", "bad-signature", "ok"}, ch \in {{}, {"a"}, {"b"}}}
  \cup {[Base EXCEPT !.keys = "one"]}
Agents ==
  {[Base EXCEPT !.agents = "ok", !.imports = g, !.h1 = h] :
     g \in [Documents -> SUBSET Documents], h \in {{}}}
  \cup {[Base EXCEPT !.agents = "ok", !.imports["f1"] = g, !.imports["f3"] = k, !.h1 = {"f2"}] :
     g, k \in SUBSET {"f2", "f3"}}
  \cup {[Base EXCEPT !.agents = st] : st \in {"missing", "dangling", "bad-body"}}
  \cup {[Base EXCEPT !.agents = "ok", !.host = "public", !.bearer = FALSE]}
Registries ==
  {[Base EXCEPT !.tools = ts, !.agents = "ok", !.deny = d] :
     ts \in {<<Read, Stale>>, <<Read, Odd>>, <<Read, Read>>, <<Read, Wipe>>},
     d \in {{}, {"write"}}}
Precedence ==
  {[Base EXCEPT !.agentType = ty, !.needs = n, !.agents = "ok", !.deny = d] :
     ty \in {"explore", "other"}, d \in {{}, {"write"}},
     n \in {"write" :> c : c \in {"AutoAllow", "Prompt", "Deny"}}}
Others ==
  {[Base EXCEPT !.adapter = ad, !.host = h, !.bearer = FALSE] :
     ad \in {"other", "unconfirmed", "confirmed"}, h \in {"loopback", "public"}}
  \cup
  {[Base EXCEPT !.memory = "down"],
   [Base EXCEPT !.sinkHalted = TRUE], [Base EXCEPT !.corrupt = TRUE],
   [Base EXCEPT !.host = "public", !.dynamic = TRUE, !.bearer = FALSE],
   [Base EXCEPT !.host = "public", !.watch = TRUE, !.bearer = FALSE]}

\* The deployments whose running behaviour is explored in depth.
Crls == {[Base EXCEPT !.anchors = <<"a">>, !.maxRows = 0, !.maxVersion = 2],
         [Base EXCEPT !.anchors = <<"a", "b">>, !.bearer = FALSE, !.maxRows = 0]}
Watched == {[Base EXCEPT !.watch = TRUE, !.agentType = ty, !.maxLaunches = 2, !.maxRows = 3] :
              ty \in {"other", "explore"}}
Dynamic == {[Base EXCEPT !.dynamic = TRUE, !.agents = "ok", !.deny = d, !.maxLaunches = 2] :
              d \in {{}, {"write"}}}

MCConfigs == {Base} \cup Hosts \cup Hooked \cup Trusts \cup Seconds \cup Cards
             \cup Agents \cup Registries \cup Precedence \cup Others
             \cup Crls \cup Watched \cup Dynamic
MCBatches == [b1 |-> <<Odd, Write>>, b2 |-> <<Wipe, Tmp>>, junk |-> <<>>]
=============================================================================
