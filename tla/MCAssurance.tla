---------------------------- MODULE MCAssurance ----------------------------
(***************************************************************************)
(* A small repository and small ground truths for TLC.                     *)
(***************************************************************************)
EXTENDS Assurance

\* A module of Python, a certificate bundle, a manifest, a virtual environment, a
\* link and a file too large to be read, in the order of their paths.
File(path, ext) == [path |-> path, ext |-> ext, link |-> FALSE, size |-> 1, opens |-> TRUE]
Code == <<"apps", "pay", "a.py">>
Bundle == <<"apps", "pay", "c.pem">>
Manifest == <<"apps", "pay", "requirements.txt">>
Link == <<"apps", "pay", "z.py">>
Large == <<"old", "Big.java">>
Readme == <<"old", "notes.txt">>
Locked == <<"old", "k.cer">>
Venv == <<"venv", "v.py">>
Tree(files) == [walks |-> TRUE, files |-> files]
MCTrees == {
  Tree(<<File(Code, ".py"), File(Bundle, ".pem"), File(Manifest, ".txt")>>),
  Tree(<<File(Bundle, ".pem"), [File(Link, ".py") EXCEPT !.link = TRUE],
         [File(Large, ".java") EXCEPT !.size = 2],
         [File(Locked, ".cer") EXCEPT !.opens = FALSE], File(Venv, ".py")>>),
  Tree(<<File(Readme, ".txt")>>), [walks |-> FALSE, files |-> <<>>],
  Tree([i \in 1..6 |-> File(<<"x", <<"a", "b", "c", "d", "e", "f">>[i]>>, ".c")])}

\* Python: an imported key generator, called where a rule sees two ciphers; one
\* that a parameter shadows; one brought in by a relative import.
Alias(name, as) == [name |-> name, as |-> as]
Import(aliases) == [op |-> "import", aliases |-> aliases, line |-> 1]
From(module, relative, aliases) ==
  [op |-> "from", module |-> module, relative |-> relative, aliases |-> aliases, line |-> 1]
Call(name, rest) == [op |-> "call", name |-> name, rest |-> rest, line |-> 5, column |-> 1]
Content(program, statements, packages, blocks) ==
  [state |-> "well", program |-> program, statements |-> statements,
   packages |-> packages, blocks |-> blocks]
Match(algorithm, usage, size) ==
  [algorithm |-> algorithm, usage |-> usage, key_size |-> size, library |-> NoValue]
Statement(dynamic, brackets, line, matches) ==
  [dynamic |-> dynamic, brackets |-> brackets, matches |-> matches, line |-> line, column |-> 1]
MCCryptoImports == <<"crypto", "rsa">> :> "RSA"
MCCryptoCalls == <<"crypto", "rsa", "new">> :>
                   [algorithm |-> "RSA", category |-> "encryption", usage |-> "encryption"]
MCRuleCategories == "RSA" :> "encryption" @@ "AES" :> "encryption" @@ "MD5" :> "hash"
MCKnownPackages == "pycrypto" :> {<<"RSA", "encryption">>} @@ "pynacl" :> {<<"Ed25519", "signature">>}
Imported1 == From(<<"crypto">>, FALSE, <<Alias(<<"rsa">>, NoValue)>>)
Codes == {
  Content(<<Imported1, Call("rsa", <<"new">>)>>,
          <<Statement(TRUE, 1, 3, <<>>), Statement(FALSE, -1, 4, <<Match("AES", "encryption", 128)>>),
            Statement(FALSE, 0, 5, <<Match("RSA", "encryption", 2048), Match("AES", "encryption", NoValue),
                                     Match("MD5", "hash", NoValue)>>)>>, <<>>, <<>>),
  Content(<<Import(<<Alias(<<"crypto", "rsa">>, "r")>>),
            [op |-> "scope", own |-> {"f"}, locals |-> {"r"}], Call("r", <<"new">>), [op |-> "leave"],
            From(<<"near">>, TRUE, <<Alias(<<"rsa">>, NoValue)>>), Call("rsa", <<"new">>),
            Call("r", <<"new">>), [op |-> "store", name |-> "r"], Call("r", <<"new">>)>>,
          <<Statement(FALSE, 0, 1, <<Match("RSA", "encryption", 1024)>>)>>, <<>>, <<>>),
  [Content(<<>>, <<Statement(FALSE, 0, 5, <<Match("AES", "sign", 128)>>)>>, <<>>, <<>>)
     EXCEPT !.state = "malformed"]}
Block(key, size, eku, loads) ==
  [key |-> key, size |-> size, eku |-> eku, serial |-> 7, loads |-> loads]
Bundles == {
  Content(<<>>, <<>>, <<>>, <<Block("ed25519", 0, {17}, TRUE)>>),
  Content(<<>>, <<>>, <<>>, <<Block("rsa", 2048, {4}, TRUE), Block("rsa", 2048, {1}, FALSE)>>),
  Content(<<>>, <<>>, <<>>, <<>>)}
Package(name) == [name |-> name, key |-> name]
Packages == {
  Content(<<>>, <<>>, <<Package("pycrypto"), Package("other"), Package("pycrypto")>>, <<>>),
  Content(<<>>, <<>>, <<Package("pynacl")>>, <<>>),
  [Content(<<>>, <<>>, <<>>, <<>>) EXCEPT !.state = "misshapen"]}
Contained ==
  Code :> Codes @@ Venv :> Codes @@ Bundle :> Bundles @@ Manifest :> Packages
    @@ [path \in {f.path : f \in UNION {ToSet(t.files) : t \in MCTrees}} |-> {}]

\* The records in some order of their texts.
Ranks ==
  FoldSet(LAMBDA c, rank : (c :> Cardinality(DOMAIN rank)) @@ rank, <<>>, Contents)

\* TLC evaluates a definition once, and what a constant is replaced by each time.
MCReads == Contained
MCTextRank == Ranks


\* Operations of two components, two usages and two sizes; assets of the same kinds
\* and one without an algorithm.
Kind(component, usage, size) == [component |-> component, usage |-> usage, key_size |-> size]
Catalogue == <<
  Kind("pay", "sign", NoValue), Kind("pay", "sign", 1), Kind("pay", "tls", NoValue),
  Kind("pay", "tls", 1), Kind("web", "sign", 1), Kind("web", "tls", NoValue)>>
Wanted(o) == [component |-> o.component, algorithm |-> "RSA", usage |-> o.usage, key_size |-> o.key_size]
Chosen(n) == {s \in UNION {[1..k -> DOMAIN Catalogue] : k \in 0..n} :
                \A i, j \in DOMAIN s : i < j => s[i] <= s[j]}
Truth(wanted) ==
  [state |-> "readable", version |-> 2, assets |-> wanted, aliases |-> <<>>, certificates |-> <<>>]
Stored(o) ==
  [algorithm |-> "RSA", component |-> o.component, parent |-> "src", usage |-> o.usage,
   key_size |-> o.key_size, sources |-> {"ast"}, own_size |-> NoValue, not_after |-> NoValue]
Nameless == [Stored(Catalogue[1]) EXCEPT !.algorithm = "", !.sources = {"dep"}]
Issued == [Stored(Catalogue[2]) EXCEPT !.component = "", !.sources = {"cert"}]
Renewed == [Stored(Catalogue[5]) EXCEPT !.sources = {"cert"}]
MCTruths ==
  {Truth([i \in DOMAIN s |-> Wanted(Catalogue[s[i]])]) : s \in Chosen(3)}
    \cup {[Truth(<<Wanted(Catalogue[1])>>) EXCEPT
             !.version = n, !.state = st, !.aliases = << <<"R", "RSA">> >>,
             !.certificates = <<[component |-> "src", key_size |-> 1, not_after |-> 9],
                                [component |-> "web", key_size |-> NoValue, not_after |-> NoValue]>>] :
            n \in {1, 2}, st \in {"absent", "readable"}}
    \cup {Truth(<<[Wanted(Catalogue[1]) EXCEPT !.component = ""]>>)}
MCScanAssets ==
  {[i \in DOMAIN s |-> Stored(Catalogue[s[i]])] : s \in Chosen(3)}
    \cup {<<Nameless, Renewed, Issued>>, [i \in 1..4 |-> Nameless]}
=============================================================================
