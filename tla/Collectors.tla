----------------------------- MODULE Collectors -----------------------------
(***************************************************************************)
(* What the four collectors make of one file: scanner/collectors/.  What a *)
(* file reads as is a content record, in which tokenising, regular         *)
(* expressions and X.509 are already done; the control that remains (which *)
(* observations are made, skipped or repeated, and which failures are      *)
(* reported) is the code's.  A handler yields a status and observations:   *)
(*   "ok"       it returned and reported nothing                           *)
(*   "reports"  it called on_error, with or without observations           *)
(*   "raises"   it raised                                                  *)
(***************************************************************************)
EXTENDS Configuration, Subsequences, Sequences, SequencesExt

CONSTANTS
  CryptoImports,    \* _CRYPTO_IMPORTS: dotted name (a sequence) |-> algorithm
  CryptoCalls,      \* _classify_call: dotted name |-> [algorithm, category, usage]
  RuleCategories,   \* the rules' categories: algorithm |-> category
  KnownPackages     \* the *_ALGO_MAPs: package |-> set of <<algorithm, category>>

\* CryptoAsset with the fields that a collector leaves to their defaults; the
\* asset_id is drawn when the observation is recorded.
Observation ==
  [id |-> 0, algorithm |-> "", category |-> "", source |-> "", path |-> <<>>, line |-> NoValue,
   column |-> NoValue, kind |-> "unknown", confidence |-> 0, usage |-> NoValue,
   library |-> NoValue, protocol |-> NoValue, key_size |-> NoValue,
   operation |-> NoValue, semantic |-> NoValue, details |-> NoValue]

Yield(status, found) == [status |-> status, found |-> found]
Failed == Yield("reports", <<>>)
----------------------------------------------------------------------------
\* ASTCollector: a program is the sequence of what the visitor meets, with
\* "scope" and "leave" around the body of a function, class, lambda or
\* comprehension.  A scope is a partial function from local names to the dotted
\* names they stand for; <<>> is a name that no import stands behind.

Shadow(scope, names) == [n \in names |-> <<>>] @@ scope

Dotted(scope, name, rest) ==
  IF name \in DOMAIN scope /\ scope[name] # <<>> THEN scope[name] \o rest ELSE <<>>

\* get_category
Category(algorithm) ==
  IF algorithm \in DOMAIN RuleCategories THEN RuleCategories[algorithm] ELSE "unknown"

\* _record_import, of the dotted names that one import statement mentions.
Imported(names, path, line) ==
  LET known == SelectSeq(names, LAMBDA n : n \in DOMAIN CryptoImports)
  IN  [i \in DOMAIN known |->
         [Observation EXCEPT !.algorithm = CryptoImports[known[i]],
            !.category = Category(CryptoImports[known[i]]),
            !.source = "ast", !.path = path, !.line = line, !.column = 1,
            !.kind = "declared_capability", !.confidence = 50]]

\* The local name that an alias [name, as] of an import binds.
LocalName(alias) == IF alias.as = NoValue THEN Head(alias.name) ELSE alias.as

\* The aliases of one statement bound to their targets, later ones winning.
Bind(scope, aliases, targets) ==
  FoldLeft(LAMBDA s, i : (LocalName(aliases[i]) :> targets[i]) @@ s,
           scope, [i \in DOMAIN aliases |-> i])

\* One node: the scopes (the innermost last) and the observations so far.
Visit(path, state, node) ==
  LET inner == Last(state.scopes)
      rebound(scope) == [state EXCEPT !.scopes = Append(Front(@), scope)]
      names == [i \in DOMAIN node.aliases |-> node.aliases[i].name]
      members == <<node.module>> \o [i \in DOMAIN names |-> node.module \o names[i]]
  IN CASE node.op = "import" ->
            \* import a.b binds a, import a.b as c binds c to a.b
            LET targets == [i \in DOMAIN names |->
                  IF node.aliases[i].as = NoValue THEN <<Head(names[i])>> ELSE names[i]]
            IN  [rebound(Bind(inner, node.aliases, targets)) EXCEPT
                   !.found = @ \o Imported(names, path, node.line)]
       [] node.op = "from" /\ ~node.relative ->
            [rebound(Bind(inner, node.aliases, Tail(members))) EXCEPT
               !.found = @ \o Imported(members, path, node.line)]
       [] node.op = "from" /\ node.relative ->
            rebound(Bind(inner, node.aliases, [i \in DOMAIN names |-> <<>>]))
       [] node.op = "store" -> rebound(Shadow(inner, {node.name}))
       [] node.op = "scope" ->
            \* the definition's own name in the enclosing scope; arguments and
            \* names assigned in the body shadow imports throughout the body
            LET outer == Shadow(inner, node.own)
            IN  [state EXCEPT !.scopes = Front(@) \o <<outer, Shadow(outer, node.locals)>>]
       [] node.op = "leave" -> [state EXCEPT !.scopes = Front(@)]
       [] node.op = "call" ->
            LET name == Dotted(inner, node.name, node.rest)
            IN  IF name \notin DOMAIN CryptoCalls THEN state
                ELSE LET call == CryptoCalls[name]
                     IN [state EXCEPT !.found = Append(@,
                           [Observation EXCEPT !.algorithm = call.algorithm,
                              !.category = call.category, !.usage = call.usage,
                              !.source = "ast", !.path = path, !.line = node.line,
                              !.column = node.column, !.kind = "observed_operation",
                              !.confidence = 90])]

\* ASTCollector.scan_file: what does not parse is reported and yields nothing.
AstScan(path, content) ==
  IF content.state \in {"unreadable", "malformed"} THEN Failed
  ELSE Yield("ok", FoldLeft(LAMBDA s, n : Visit(path, s, n),
                            [scopes |-> << <<>> >>, found |-> <<>>], content.program).found)
----------------------------------------------------------------------------
\* RuleCollector: statements with the algorithms whose pattern matched and no
\* filter on declarations excluded, in the order of the rules.

RuleApplies(ext, algorithm) ==
  ~(ext = ".py" /\ (RuleCategories[algorithm] = "hash" \/ algorithm = "HMAC"))

\* Statements from a dynamic import on are skipped until its brackets close.
Examine(path, ext, state, st) ==
  IF st.dynamic \/ state.depth > 0
  THEN [state EXCEPT !.depth = IF @ + st.brackets < 0 THEN 0 ELSE @ + st.brackets]
  ELSE LET matches == SelectSeq(st.matches, LAMBDA m : RuleApplies(ext, m.algorithm))
       IN  [state EXCEPT !.found = @ \o [i \in DOMAIN matches |->
              [Observation EXCEPT
                 !.algorithm = matches[i].algorithm, !.source = "rule", !.path = path,
                 !.category = RuleCategories[matches[i].algorithm],
                 !.usage = matches[i].usage, !.key_size = matches[i].key_size,
                 !.library = matches[i].library, !.line = st.line, !.column = st.column,
                 !.protocol = IF matches[i].usage = "tls" THEN "TLS" ELSE NoValue,
                 !.kind = "observed_operation", !.confidence = 82]]]

\* RuleCollector.scan_file decodes with replacement: nothing is malformed to it.
RuleScan(path, ext, content) ==
  IF content.state = "unreadable" THEN Failed
  ELSE Yield("ok", FoldLeft(LAMBDA s, st : Examine(path, ext, s, st),
                            [depth |-> 0, found |-> <<>>], content.statements).found)
----------------------------------------------------------------------------
\* _CAT_TO_USAGE; a category without an entry stays what it is.
CatToUsage(category) ==
  CASE category = "hash" -> "hashing"
    [] category = "mac"  -> "unknown"
    [] OTHER             -> category

\* _dependency_asset, for the algorithms of one package.
Declared(path, name) ==
  LET pairs == SetToSeq(KnownPackages[name])
  IN  [i \in DOMAIN pairs |->
         [Observation EXCEPT !.algorithm = pairs[i][1], !.category = pairs[i][2],
            !.usage = CatToUsage(pairs[i][2]), !.source = "dep", !.path = path,
            !.library = name, !.kind = "declared_capability", !.confidence = 70,
            !.details = <<name, CatToUsage(pairs[i][2])>>]]

\* The scan_* methods of DepCollector, over the packages [name, key] of a manifest:
\* each known package once (a POM's key has the artifact), a manifest that does not
\* parse is reported, one that parses to another shape raises.
DepScan(path, content) ==
  CASE content.state \in {"unreadable", "malformed"} -> Failed
    [] content.state = "misshapen" -> Yield("raises", <<>>)
    [] OTHER ->
         Yield("ok",
           FoldLeft(LAMBDA s, p :
                      IF p.name \notin DOMAIN KnownPackages \/ p.key \in s.seen THEN s
                      ELSE [seen |-> s.seen \cup {p.key}, found |-> s.found \o Declared(path, p.name)],
                    [seen |-> {}, found |-> <<>>], content.packages).found)
----------------------------------------------------------------------------
\* _eku_to_usage, of the last numbers of the dotted purposes: the code looks for
\* 1.3.6.1.5.5.7.3.1 (and .2, .3) anywhere in them, so .17 counts as .1; e-mail
\* protection is only known by a name that the dotted form does not contain.
EkuToUsage(eku) ==
  CASE eku \cap ({1, 2} \cup 10..29) # {} -> "tls"
    [] eku \cap ({1, 2} \cup 10..29) = {} /\ eku \cap ({3} \cup 30..39) # {} -> "signature"
    [] OTHER -> "unknown"

CertificateKey(key) ==
  CASE key = "rsa" -> [algorithm |-> "RSA", category |-> "encryption"]
    [] key = "ec"  -> [algorithm |-> "ECDSA", category |-> "signature"]
    [] key = "ed25519" -> [algorithm |-> "Ed25519", category |-> "signature"]
    [] OTHER       -> [algorithm |-> key, category |-> "unknown"]

\* _asset_from_certificate; a key without a size, like Ed25519's, has size 0.
Certificate(path, block) ==
  LET key == CertificateKey(block.key)
      usage == EkuToUsage(block.eku)
  IN  [Observation EXCEPT !.algorithm = key.algorithm, !.category = key.category,
         !.usage = usage, !.source = "cert", !.path = path, !.key_size = block.size,
         !.kind = IF usage = "unknown" THEN "artifact_metadata" ELSE "configured_protocol",
         !.confidence = 95, !.details = <<block.serial, block.key, block.size>>]

\* CertCollector.scan_cert: a bundle yields the certificates that load and is
\* reported for those that do not, or when it holds none.
CertScan(path, content) ==
  IF content.state = "unreadable" \/ content.blocks = <<>> THEN Failed
  ELSE LET loaded == SelectSeq(content.blocks, LAMBDA b : b.loads)
       IN  Yield(IF Len(loaded) = Len(content.blocks) THEN "ok" ELSE "reports",
                 [i \in DOMAIN loaded |-> Certificate(path, loaded[i])])
----------------------------------------------------------------------------
\* CollectorRegistry.

Manifests == {"requirements.txt", "pom.xml", "package-lock.json", "Gemfile.lock",
              "go.sum", "Cargo.lock"}
CodeExtensions == {".py", ".java", ".js", ".ts", ".c", ".cpp", ".go", ".cs", ".rs"}
CertExtensions == {".crt", ".pem", ".cer"}

\* The handlers by extension; only .py has two.
ExtensionHandlers(ext) ==
  (IF ext = ".py" THEN <<"ast">> ELSE <<>>)
    \o (IF ext \in CodeExtensions THEN <<"rule">> ELSE <<>>)
    \o (IF ext \in CertExtensions THEN <<"cert">> ELSE <<>>)

\* supported_extensions and supported_filenames, as _inventory asks for them.
Supported(file) ==
  file.ext \in CodeExtensions \cup CertExtensions \/ Last(file.path) \in Manifests

\* handlers_for: by name first, then by extension, each collector once.
HandlersFor(file) ==
  LET named == IF Last(file.path) \in Manifests THEN <<"dep">> ELSE <<>>
      others == ExtensionHandlers(file.ext)
  IN  named \o Selected(others, {i \in DOMAIN others : others[i] \notin ToSet(named)})

Handle(handler, file, content) ==
  CASE handler = "ast"  -> AstScan(file.path, content)
    [] handler = "rule" -> RuleScan(file.path, file.ext, content)
    [] handler = "dep"  -> DepScan(file.path, content)
    [] handler = "cert" -> CertScan(file.path, content)
=============================================================================
