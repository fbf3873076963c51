------------------------------- MODULE Render -------------------------------
(***************************************************************************)
(* From routing.json to the configuration of the active core: the three    *)
(* renderers (internal/singbox, internal/core/xray, internal/core/mihomo), *)
(* what each makes of a rule, and the presets that fill the document       *)
(* (internal/preset).                                                      *)
(*                                                                         *)
(* A document is [inbs, outs, rules, sets, final]: inbounds by type,       *)
(* outbounds by tag, the rule list, rule_sets as [tag, fmt] and the final  *)
(* outbound.  A rule is [act, out] with one set of matchers per kind of    *)
(* condition.  What a matcher means is the set of packets it covers, so a  *)
(* rendered rule is the set of packets it catches and where they go; the   *)
(* text of the configuration is left out.                                  *)
(***************************************************************************)
EXTENDS Naturals, Sequences, FiniteSets, SequencesExt

CONSTANTS Packets,    \* classes of packets the matchers tell apart
          Covers(_),  \* packets a domain, network, port, protocol or rule_set matcher covers
          Literal,    \* domain matchers by full name, by keyword, by suffix with a leading dot
          Geosite,    \* rule_set tags with the prefix geosite-
          Geoip,      \* rule_set tags with the prefix geoip-
          Peers       \* outbounds that run as a supervised peer (mieru, naive)

ASSUME PrefixesDiffer == Geosite \cap Geoip = {}

None == [none |-> TRUE]
Cores == {"sing-box", "xray", "mihomo"}
Service == {"direct", "block"}      \* tags of service outbounds
Passive == {"sniff", "resolve"}     \* actions that do not decide where a packet goes
Kinds == {"domain", "sets", "port", "net", "proto"}

Empty == [inbs |-> <<>>, outs |-> <<>>, rules |-> <<>>, sets |-> <<>>, final |-> ""]
Tags(sets) == {s.tag : s \in ToSet(sets)}

(* RouteRule.Validate: an action that routes needs an outbound as soon as the rule has a condition. *)
HasConditions(r) == \E k \in Kinds : r[k] # {}
ValidRule(r) == (r.act = "route" /\ HasConditions(r)) => r.out # ""

(* RoutingConfig.Validate: unique tags and a final outbound that exists.   *)
(* What rules refer to is not looked at.                                   *)
Valid(d) ==
  /\ IsInjective(d.inbs) /\ IsInjective(d.outs)
  /\ \A i, j \in DOMAIN d.sets : d.sets[i].tag = d.sets[j].tag => i = j
  /\ \A r \in ToSet(d.rules) : ValidRule(r)
  /\ d.final \in {""} \cup Service \cup ToSet(d.outs)

-----------------------------------------------------------------------------
(* What the rules of a rendered configuration catch                        *)

Group(ms) == IF ms = {} THEN Packets ELSE UNION {Covers(m) : m \in ms}
Common(r) == Group(r.net) \cap Group(r.port) \cap Group(r.proto)
Line(ps, to) == [pkts |-> ps, to |-> to]

(* The first line that catches a packet decides. *)
Verdict(lines, rest, p) ==
  LET hits == SelectSeq(lines, LAMBDA l : p \in l.pkts)
  IN  IF hits = <<>> THEN rest ELSE Head(hits).to

Normal(to) == IF to = "block" THEN "REJECT" ELSE to

(* normalizeRouteRule and the rules of sing-box: conditions on the         *)
(* destination are alternatives, the other kinds restrict them.            *)
SingBoxLine(r) ==
  Line(Group(r.domain \cup r.sets) \cap Common(r),
       IF r.act \in {"reject", "block"} THEN "REJECT" ELSE r.out)
SingBoxLines(rules) ==
  LET deciding == SelectSeq(rules, LAMBDA r : r.act \notin Passive)
  IN  [i \in DOMAIN deciding |-> SingBoxLine(deciding[i])]

(* What routing.json asks for: its rules are the rules of sing-box. *)
Wanted(d, dflt) ==
  LET lines == SingBoxLines(d.rules)
      rest  == IF d.final # "" THEN d.final ELSE dflt
  IN  [p \in Packets |-> Normal(Verdict(lines, rest, p))]

Config(lines, rest, outs, sets, inbs, base) ==
  [lines |-> lines, rest |-> rest, outs |-> outs, sets |-> sets, inbs |-> inbs, base |-> base]

-----------------------------------------------------------------------------
(* sing-box.  rp is [outs, rc, inbound, dflt]: outbounds of state.json,    *)
(* the document or None, state.inbound, tag of the first outbound.         *)

(* Render in TPROXY mode supplies the inbound itself unless the document names some. *)
WithTproxyInbound(rp) ==
  IF rp.inbound # "tproxy" THEN rp.rc
  ELSE IF rp.rc = None
       THEN [Empty EXCEPT !.inbs = <<"tproxy">>, !.outs = rp.outs, !.final = rp.dflt]
       ELSE IF rp.rc.inbs = <<>> THEN [rp.rc EXCEPT !.inbs = <<"tproxy">>] ELSE rp.rc

(* FilterUnusedRuleSets *)
UsedSets(d) == SelectSeq(d.sets, LAMBDA s : \E r \in ToSet(d.rules) : s.tag \in r.sets)

RenderSingBox(rp) ==
  LET rc == WithTproxyInbound(rp)
      d  == IF rc = None THEN [Empty EXCEPT !.outs = rp.outs] ELSE rc
      in == IF d.inbs = <<>> THEN <<"tun">> ELSE d.inbs
  IN  IF ~Valid(d) THEN None
      ELSE Config(SingBoxLines(d.rules),
                  IF d.final # "" THEN d.final ELSE rp.dflt,
                  ToSet(d.outs) \cup {"direct"}, Tags(UsedSets(d)), in, Head(in))

-----------------------------------------------------------------------------
(* xray and mihomo *)

(* EffectiveOutbounds: those of the document unless it has none. *)
EffectiveOutbounds(rp) ==
  IF rp.rc # None /\ rp.rc.outs # <<>> THEN rp.rc.outs ELSE rp.outs
EffectiveDefaultTag(rp) ==
  LET outs == EffectiveOutbounds(rp)
  IN  IF rp.dflt # "" THEN rp.dflt
      ELSE IF rp.rc # None /\ rp.rc.final # "" THEN rp.rc.final
      ELSE IF outs # <<>> THEN Head(outs) ELSE ""

HasRouting(rc) == rc # None /\ (rc.rules # <<>> \/ rc.final # "")

(* renderXrayRule writes domain:full: before a name, domain:keyword:       *)
(* before a keyword and keeps the leading dot of a suffix.  xray reads the *)
(* first prefix only and looks for subdomains of the literal text after    *)
(* it, which no name is.                                                   *)
Site(ms) == IF ms = {} THEN Packets ELSE UNION {Covers(m) : m \in ms \ Literal}

(* renderXrayRule: no line, or one.  rule_sets become geosite: and geoip:  *)
(* matchers, the others are dropped; a rule left without any is dropped.   *)
XrayLinesAnyPort(r) ==
  LET site  == r.domain \cup (r.sets \cap Geosite)
      ip    == r.sets \cap Geoip
      conds == site \cup ip \cup r.net \cup r.proto
      to    == IF r.act \in {"reject", "block"} THEN "block" ELSE r.out
  IN  IF r.act \in Passive \/ to = "" \/ (r.sets # {} /\ conds = {}) THEN <<>>
      ELSE <<Line(Site(site) \cap Group(ip) \cap Group(r.net) \cap Group(r.proto), to)>>
XrayLines(r) ==
  LET site  == r.domain \cup (r.sets \cap Geosite)
      ip    == r.sets \cap Geoip
      conds == site \cup ip \cup r.net \cup r.port \cup r.proto
      to    == IF r.act \in {"reject", "block"} THEN "block" ELSE r.out
  IN  IF r.act \in Passive \/ to = "" \/ (r.sets # {} /\ conds = {}) THEN <<>>
      ELSE <<Line(Site(site) \cap Group(ip) \cap Common(r), to)>>

(* renderXrayRoutingRules: fails without geosite.dat and geoip.dat (dat)   *)
(* as soon as a rule refers to one of them.                                *)
XrayRules(d, dat) ==
  IF ~dat /\ \E r \in ToSet(d.rules) : r.sets \cap (Geosite \cup Geoip) # {} THEN {}
  ELSE {FlattenSeq([i \in DOMAIN d.rules |-> XrayLines(d.rules[i])])}

(* Render skips direct and block among the outbounds and appends each      *)
(* unless an outbound has its tag: one that is listed is not in the file.  *)
RenderXray(rp, dat) ==
  LET outs == ToSet(EffectiveOutbounds(rp))
      d    == IF HasRouting(rp.rc) THEN rp.rc ELSE Empty
      rest == IF d.final # "" THEN d.final ELSE EffectiveDefaultTag(rp)
  IN  IF outs \cap Peers # {} \/ XrayRules(d, dat) = {} THEN None
      ELSE Config(CHOOSE lines \in XrayRules(d, dat) : TRUE, rest,
                  (outs \ Service) \cup (Service \ outs), {}, <<"tproxy">>, "tproxy")

Providers(d) == {s.tag : s \in {t \in ToSet(d.sets) : t.fmt = "mrs"}}

(* resolveAction and emitRuleLines: one line per matcher; protocols and    *)
(* rule_sets without a provider are dropped.                               *)
MihomoLines(r, provs) ==
  LET ms == SetToSeq(r.domain) \o SetToSeq(r.port) \o SetToSeq(r.net)
              \o SetToSeq(r.sets \cap provs)
      to == IF r.act \in {"reject", "block"} THEN "REJECT" ELSE Normal(r.out)
  IN  IF r.act \in Passive \/ to = "" THEN <<>>
      ELSE [i \in DOMAIN ms |-> Line(Covers(ms[i]), to)]

TranslateRoutingRules(d) ==
  FlattenSeq([i \in DOMAIN d.rules |-> MihomoLines(d.rules[i], Providers(d))])

(* Without rules and final the template falls back to MATCH,PROXY. *)
RenderMihomo(rp) ==
  LET outs  == ToSet(EffectiveOutbounds(rp))
      d     == IF HasRouting(rp.rc) THEN rp.rc ELSE Empty
      rest  == IF d.final # "" THEN d.final ELSE EffectiveDefaultTag(rp)
  IN  IF outs \cap Peers # {} THEN None
      ELSE Config(TranslateRoutingRules(d),
                  IF HasRouting(rp.rc) THEN Normal(rest) ELSE "PROXY",
                  (outs \cup {"direct", "PROXY"}) \ {"block"}, Providers(d), <<"tproxy">>, "tproxy")

(* A configuration file is kept as what it was rendered from, [core, rp, dat]. *)
RenderConfig(f) ==
  CASE f.core = "sing-box" -> RenderSingBox(f.rp)
    [] f.core = "xray"     -> RenderXray(f.rp, f.dat)
    [] f.core = "mihomo"   -> RenderMihomo(f.rp)

(* The core's own check of the file (sing-box check, mihomo -t) refuses    *)
(* names that are not defined; xray run -test does not look at them.       *)
Accepts(f) ==
  LET cfg == RenderConfig(f)
  IN  \/ f.core = "xray"
      \/ /\ {l.to : l \in ToSet(cfg.lines)} \cup {cfg.rest} \subseteq cfg.outs \cup {"REJECT", ""}
         /\ f.core = "sing-box" /\ f.rp.rc # None =>
              UNION {r.sets : r \in ToSet(f.rp.rc.rules)} \subseteq cfg.sets

-----------------------------------------------------------------------------
(* Presets *)

(* ResolveRuleSetURL: the format of the source for a core's rule_sets, or  *)
(* "" when xray translates the tag itself and "none" when it cannot.       *)
SourceFormat(core, tag) ==
  CASE core = "sing-box" -> "srs"
    [] core = "mihomo"   -> "mrs"
    [] core = "xray"     -> IF tag \in Geosite \cup Geoip THEN "" ELSE "none"

(* What of a preset a document takes over: {vpn} filled in, the rule_sets  *)
(* it lacks and the core has a source for.                                 *)
Fill(tag, vpn) == IF tag = "{vpn}" THEN vpn ELSE tag
FilledRules(preset, vpn) ==
  [i \in DOMAIN preset.rules |-> [preset.rules[i] EXCEPT !.out = Fill(@, vpn)]]
MissingSets(d, preset, core) ==
  LET missing == SelectSeq(preset.sets, LAMBDA t : /\ t \notin Tags(d.sets)
                                                   /\ SourceFormat(core, t) \in {"srs", "mrs"})
  IN  [i \in DOMAIN missing |-> [tag |-> missing[i], fmt |-> SourceFormat(core, missing[i])]]

(* ApplyToConfig: rules appended ("replace": instead of the old ones),     *)
(* final set if empty ("replace": always).                                 *)
ApplyToConfigFirst(d, preset, vpn, core, mode) ==
  [d EXCEPT !.rules = FilledRules(preset, vpn) \o (IF mode = "replace" THEN <<>> ELSE @),
            !.sets  = @ \o MissingSets(d, preset, core),
            !.final = IF preset.final # "" /\ (mode = "replace" \/ @ = "")
                      THEN Fill(preset.final, vpn) ELSE @]
ApplyToConfig(d, preset, vpn, core, mode) ==
  [d EXCEPT !.rules = (IF mode = "replace" THEN <<>> ELSE @) \o FilledRules(preset, vpn),
            !.sets  = @ \o MissingSets(d, preset, core),
            !.final = IF preset.final # "" /\ (mode = "replace" \/ @ = "")
                      THEN Fill(preset.final, vpn) ELSE @]

Rule(act, out, on) == [k \in {"act", "out"} \cup Kinds |->
  CASE k = "act" -> act [] k = "out" -> out [] k \in DOMAIN on -> on[k] [] OTHER -> {}]

(* Three of the built-in presets; the others have rules of the same forms. *)
BuiltinPresets ==
  [name \in {"sign-craze-default", "ru-direct-rest-vpn", "block-bogon-udp"} |->
     CASE name = "sign-craze-default" ->
            [rules |-> <<Rule("route", "direct", [proto |-> {"bittorrent"}]),
                         Rule("route", "direct", [sets |-> {"geosite-youtube"}]),
                         Rule("route", "{vpn}", [sets |-> {"refilter"}])>>,
             sets |-> <<"geosite-youtube", "refilter">>, final |-> "direct"]
       [] name = "ru-direct-rest-vpn" ->
            [rules |-> <<Rule("route", "direct", [sets |-> {"geoip-ru"}])>>,
             sets |-> <<"geoip-ru">>, final |-> "{vpn}"]
       [] name = "block-bogon-udp" ->
            [rules |-> <<Rule("reject", "", [net |-> {"udp"}, port |-> {"netbios"}])>>,
             sets |-> <<>>, final |-> ""]]

UsesVPN(preset) == preset.final = "{vpn}" \/ \E r \in ToSet(preset.rules) : r.out = "{vpn}"

-----------------------------------------------------------------------------
(* What the rendered rules mean *)

(* Rules a core can be given: all for sing-box; for xray, rule_sets it has *)
(* a name for and a destination given by domains or by addresses, not by   *)
(* both, nor by full name or keyword; for mihomo, conditions of one kind.  *)
Expressible(core, r, provs) ==
  \/ core = "sing-box" \/ r.act \in Passive
  \/ core = "xray" /\ r.sets \subseteq Geosite \cup Geoip /\ r.domain \cap Literal = {}
                   /\ (r.sets \cap Geoip # {} => (r.domain \cup r.sets) \subseteq Geoip)
  \/ core = "mihomo" /\ r.proto = {} /\ r.sets \subseteq provs
                     /\ Cardinality({k \in {"dst", "port", "net"} :
                          IF k = "dst" THEN r.domain \cup r.sets # {} ELSE r[k] # {}}) = 1

(* Every packet goes to the outbound routing.json names.                   *)
SameVerdicts(f, cfg) ==
  [p \in Packets |-> Normal(Verdict(cfg.lines, cfg.rest, p))] = Wanted(f.rp.rc, f.rp.dflt)

(* Where packets go there is an outbound, if tags has it.                  *)
Delivers(cfg, tags) ==
  \A p \in Packets : LET to == Verdict(cfg.lines, cfg.rest, p)
                     IN  to \in tags => to \in cfg.outs

(* A configuration whose document holds only rules its core can express    *)
(* sends every packet where routing.json says; and the core, if it takes   *)
(* the file, has that outbound when the operator or the program defined    *)
(* it, unless the operator lists direct or block among the outbounds.      *)
RoutesAsDocument(f) ==
  LET d    == f.rp.rc
      outs == ToSet(EffectiveOutbounds(f.rp))
      cfg  == RenderConfig(f)
  IN  (HasRouting(d) /\ \A r \in ToSet(d.rules) : Expressible(f.core, r, Providers(d))) =>
        /\ SameVerdicts(f, cfg)
        /\ Accepts(f) /\ outs \cap Service = {} => Delivers(cfg, outs \cup Service)
=============================================================================
