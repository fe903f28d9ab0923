------------------------------ MODULE CiscoCli ------------------------------
(***************************************************************************)
(* How a command line is brought to a canonical form before it is judged   *)
(* (internal/policy/cisco_cli.go and NormalizeCLI).  A line is a sequence  *)
(* of lower-case words; a leading "do" is dropped and every word that is   *)
(* an abbreviation in its place is replaced by the keyword it stands for.  *)
(* Lower-casing and the splitting at blanks are left out.                  *)
(***************************************************************************)
EXTENDS Naturals, Sequences

CONSTANTS Lines,      \* the command lines and patterns in use
          Literals    \* isCiscoLiteral, of their words: numbers, ports, addresses

\* ciscoVocabulary: a word of two letters or more is expanded to the one
\* keyword it begins.
Vocabulary == {
    "access-list", "archive", "aux", "bfd", "boot", "certificate", "channel-group",
    "class-map", "clear", "clock", "configure", "console", "copy", "crypto", "debug",
    "default", "delete", "description", "disable", "domain", "duplex", "enable",
    "erase", "etherchannel", "exec", "exit", "format", "gateway", "hostname",
    "interface", "ip", "ipv6", "key", "line", "logging", "mode", "monitor",
    "neighbor", "network", "ntp", "password", "ping", "policy-map", "port-channel",
    "prefix-list", "privilege", "redistribute", "reload", "route", "route-map",
    "router", "routing", "running-config", "secret", "service", "shutdown", "show",
    "snmp-server", "spanning-tree", "speed", "startup-config", "static",
    "switchport", "telnet", "terminal", "traceroute", "trunk", "undebug",
    "username", "vlan", "vrf", "vty", "write"}

\* A table of abbreviations: each keyword with the words that stand for it.
Table(pairs) ==
    LET keys == UNION {p[2] : p \in pairs}
    IN  [k \in keys |-> (CHOOSE p \in pairs : k \in p[2])[1]]

\* ciscoTokenAlias: abbreviations that hold anywhere.
Aliases == Table({
    <<"show", {"sh", "sho"}>>, <<"enable", {"en", "ena"}>>, <<"disable", {"dis"}>>,
    <<"configure", {"conf", "config", "con"}>>, <<"copy", {"cop"}>>,
    <<"write", {"wr", "writ"}>>, <<"erase", {"era", "er"}>>,
    <<"reload", {"rel", "relo"}>>, <<"delete", {"del"}>>, <<"clear", {"cle", "clr"}>>,
    <<"ping", {"pin", "pi"}>>, <<"traceroute", {"tra", "trac"}>>,
    <<"telnet", {"tel"}>>, <<"logging", {"log", "logg"}>>, <<"debug", {"deb"}>>,
    <<"undebug", {"unde", "und"}>>, <<"monitor", {"mon"}>>,
    <<"interface", {"int", "interf", "inte"}>>, <<"description", {"desc", "descri"}>>,
    <<"shutdown", {"shut", "shutd"}>>, <<"switchport", {"sw", "swi", "switchp"}>>,
    <<"hostname", {"host", "hostn"}>>, <<"access-list", {"acc", "access"}>>,
    <<"router", {"rout"}>>, <<"privilege", {"priv"}>>, <<"password", {"pass"}>>,
    <<"secret", {"sec"}>>, <<"snmp-server", {"snmp"}>>,
    <<"spanning-tree", {"spa", "span"}>>, <<"policy-map", {"pol", "policy"}>>,
    <<"class-map", {"class"}>>, <<"redistribute", {"red"}>>, <<"neighbor", {"nei"}>>,
    <<"network", {"net"}>>, <<"static", {"stat"}>>, <<"default", {"def"}>>,
    <<"duplex", {"dup"}>>, <<"speed", {"spe"}>>, <<"mode", {"mod"}>>,
    <<"trunk", {"tru"}>>, <<"encapsulation", {"enc"}>>, <<"format", {"form"}>>,
    <<"ntp", {"ntp"}>>, <<"vrf", {"vrf"}>>, <<"vlan", {"vlan", "vl"}>>,
    <<"ip", {"ip"}>>, <<"ipv6", {"ipv6"}>>, <<"crypto", {"crypto", "cry"}>>,
    <<"key", {"key"}>>, <<"boot", {"boot"}>>, <<"clock", {"clock"}>>,
    <<"service", {"service", "ser"}>>, <<"username", {"username", "user"}>>,
    <<"line", {"line", "lin"}>>, <<"vty", {"vty"}>>, <<"aux", {"aux"}>>,
    <<"exit", {"exit", "ex"}>>, <<"end", {"end"}>>, <<"do", {"do"}>>, <<"no", {"no"}>>})

\* ciscoContextNext: abbreviations that hold after a given keyword.
After == [
    configure |-> Table({<<"terminal", {"t", "ter", "term"}>>, <<"memory", {"mem", "memor"}>>}),
    show |-> Table({
        <<"running-config", {"run", "running", "ru"}>>,
        <<"startup-config", {"start", "startup", "sta"}>>,
        <<"version", {"ver", "vers", "versi"}>>, <<"interface", {"int", "interf"}>>,
        <<"interfaces", {"interfaces"}>>, <<"ip", {"ip"}>>, <<"vlan", {"vlan"}>>,
        <<"clock", {"clock"}>>, <<"logging", {"log"}>>,
        <<"spanning-tree", {"span", "spanning"}>>, <<"access-list", {"access", "acc"}>>,
        <<"route", {"route"}>>, <<"route-map", {"route-map"}>>}),
    copy |-> Table({
        <<"running-config", {"run", "running"}>>, <<"startup-config", {"start", "startup"}>>,
        <<"ftp", {"ftp"}>>, <<"tftp", {"tftp"}>>, <<"scp", {"scp"}>>}),
    erase |-> Table({<<"startup-config", {"start", "startup"}>>}),
    write |-> Table({
        <<"memory", {"mem", "memor"}>>, <<"erase", {"eri", "erase"}>>,
        <<"terminal", {"term", "ter"}>>}),
    interface |-> Table({
        <<"description", {"desc", "descri"}>>, <<"shutdown", {"shut", "shutd"}>>,
        <<"switchport", {"sw", "switchp"}>>}),
    router |-> Table({
        <<"bgp", {"bgp"}>>, <<"ospf", {"ospf"}>>, <<"eigrp", {"eigrp"}>>,
        <<"rip", {"rip"}>>, <<"isis", {"isis"}>>}),
    ip |-> Table({
        <<"route", {"route"}>>, <<"routing", {"routing"}>>, <<"access-list", {"access"}>>,
        <<"dhcp", {"dhcp"}>>, <<"nat", {"nat"}>>, <<"ssh", {"ssh"}>>, <<"domain", {"domain"}>>}),
    line |-> Table({
        <<"vty", {"vty"}>>, <<"console", {"con", "cons", "console"}>>, <<"aux", {"aux"}>>}),
    username |-> Table({<<"privilege", {"priv", "privilege"}>>})]

\* "snmp-server" is no field name of a record, hence a table of its own.
AfterSnmpServer == Table({<<"community", {"community", "comm"}>>, <<"host", {"host"}>>})

\* ciscoContextExpand.  The tables have no two-word parents, so the look-up by
\* the last two words finds nothing.
ContextOf(parent) ==
    IF parent \in DOMAIN After THEN After[parent]
    ELSE IF parent = "snmp-server" THEN AfterSnmpServer ELSE << >>

\* strings.HasPrefix on one word.
Begins(word, part) == Len(part) <= Len(word) /\ SubSeq(word, 1, Len(part)) = part

\* ciscoUniquePrefix: the keywords a word begins.
KeywordsOf(word) == {k \in Vocabulary : Begins(k, word)}

\* expandCiscoToken.
ExpandToken(word, parent) ==
    CASE word \in Literals -> word
      [] word \notin Literals /\ word \in DOMAIN ContextOf(parent) -> ContextOf(parent)[word]
      [] word \notin Literals /\ word \notin DOMAIN ContextOf(parent)
            /\ word \in DOMAIN Aliases -> Aliases[word]
      [] OTHER -> LET ks == KeywordsOf(word)
                  IN  IF Len(word) >= 2 /\ \E k \in ks : ks = {k}
                      THEN CHOOSE k \in ks : TRUE ELSE word

StripDo_Kept(line) == line

\* stripCiscoExecDo: "do reload" runs "reload" from a configuration mode.
StripDo(line) == IF Len(line) >= 2 /\ line[1] = "do" THEN Tail(line) ELSE line

\* expandCiscoTokens: from left to right, each word after its expanded parent.
ExpandTokens(line) ==
    LET expanded[i \in 0 .. Len(line)] ==
            IF i = 0 THEN << >>
            ELSE LET before == expanded[i - 1]
                     parent == IF i = 1 THEN "" ELSE before[i - 1]
                 IN  Append(before, ExpandToken(line[i], parent))
    IN  expanded[Len(line)]

NormalizeCLI(line) == ExpandTokens(StripDo(line))

Canonical == [line \in Lines |-> NormalizeCLI(line)]

\* strings.HasPrefix on two canonical lines: whole words, then part of one.
LineBegins(line, part) ==
    LET n == Len(part)
    IN  /\ n > 0 /\ n <= Len(line)
        /\ \A i \in 1 .. n - 1 : line[i] = part[i]
        /\ Begins(line[n], part[n])

\* ciscoSessionControl: these leave a mode or the session and are never refused.
SessionControl(line) ==
    Canonical[line] \in {<<w>> : w \in {"exit", "end", "logout", "logoff", "quit", "disable"}}

\* CommandAllowed: a denied prefix refuses; without an allow list the rest passes.
CommandAllowed(line, allow, deny) ==
    LET hit(patterns) == \E p \in patterns : LineBegins(Canonical[line], Canonical[p])
    IN  SessionControl(line) \/ (~hit(deny) /\ (allow = {} \/ hit(allow)))
=============================================================================
