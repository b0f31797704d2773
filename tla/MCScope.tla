------------------------------- MODULE MCScope -------------------------------
(***************************************************************************)
(* A crate for TLC with modules in both layouts, an integration test, a    *)
(* fuzz crate, and a program below tests/ with a manifest of its own.      *)
(***************************************************************************)
EXTENDS Scope

At(dir, stem) == [dir |-> dir, stem |-> stem]

Lib == At(<<"src">>, "lib")
Util == At(<<"src">>, "util")
UtilDir == At(<<"src", "util">>, "mod")
Deep == At(<<"src", "util">>, "deep")
Deeper == At(<<"src", "util", "deep">>, "more")
Vault == At(<<"src">>, "vault")
Inner == At(<<"src", "vault">>, "inner")
It == At(<<"tests">>, "it")
Prog == At(<<"tests", "p", "src">>, "main")
ProgUtil == At(<<"tests", "p", "src">>, "util")
Fuzzer == At(<<"fuzz", "src">>, "main")

MCFile == {Lib, Util, UtilDir, Deep, Deeper, Vault, Inner, It, Prog, ProgUtil, Fuzzer}
MCOrder == <<Fuzzer, Lib, UtilDir, Deeper, Deep, Util, Inner, Vault, It, Prog, ProgUtil>>
MCCrates == {<<>>, <<"tests", "p">>, <<"fuzz">>}
MCFuzz == {<<"fuzz">>}
MCCrateRoots == {Lib, It, Prog, Fuzzer}
MCTestRoots == {It}
MCFlag == {"test", "idl"}

Is(flag) == [op |-> "flag", flag |-> flag, parts |-> {}]
Op(op, parts) == [op |-> op, flag |-> "test", parts |-> parts]
Test == Is("test")
Both == Op("all", {Test, Is("idl")})
Either == Op("any", {Test, Is("idl")})
NotTest == Op("not", {Test})

\* Predicates of an attribute and, after them, the parts they are made of.
Outer == {Test, Both, Either, NotTest, Op("all", {Either}), Op("all", {Is("idl"), Both})}
MCPredicate == Outer \cup {Is("idl")}

Declare(name, cfg) == [name |-> name, cfg |-> cfg, path |-> None, within |-> <<>>]
Holding(mods, code) == [mods |-> mods, code |-> code]
Plain == Holding({}, {<<>>})

Cfg == {{}, {NotTest, Is("idl")}, {Is("idl"), Test}} \cup {{p} : p \in Outer}

\* A file whose modules are declared under x, with code in an inline module under y.
Modules1(name, x, y) ==
  Holding({Declare(name, x)}, {<<>>, <<[name |-> "checks", cfg |-> y]>>})

\* The module below an inline one.
Nested(name, x) ==
  Holding({[Declare(name, {}) EXCEPT !.within = <<[name |-> "deep", cfg |-> x]>>]}, {<<>>})

Tree(x, y, z, layout, u) ==
  [f \in MCFile |->
     CASE f = Lib -> Holding({Declare("util", x), Declare("vault", y)}, {<<>>})
       [] f = layout -> u
       [] f \in {Util, UtilDir} \ {layout} -> Gone
       [] f = Vault -> Modules1("inner", z, y)
       [] f = Deep -> IF layout = Util THEN Modules1("more", {}, x) ELSE Plain
       [] f = Prog -> Modules1("util", y, x)
       [] f = It -> Modules1("util", {}, z)
       [] OTHER -> Plain]

\* With a #[path]: to tests or to code, from there or from here, or beside a module of that name.
Elsewhere(name, x, file) == [Declare(name, x) EXCEPT !.path = file]
WithPath(f, m) ==
  {[Tree(x, y, {}, Util, Modules1("deep", {}, {Test})) EXCEPT ![f].mods = @ \cup {m}] :
     x \in {{}, {Test}, {NotTest}}, y \in {{}, {Test}}}

MCTrees ==
  {Tree(x, y, z, layout, u) :
     x \in Cfg, y \in Cfg, z \in {{}, {Test}, {Either}}, layout \in {Util, UtilDir},
     u \in {Modules1("deep", {}, {Test}), Modules1("deep", {NotTest}, {}), Nested("more", {Either})}}
  \cup WithPath(Lib, Elsewhere("other", {}, Deep)) \cup WithPath(Vault, Elsewhere("other", {}, Deep))
  \cup WithPath(Lib, Elsewhere("other", {Test}, Deep)) \cup WithPath(Lib, Elsewhere("vault", {Test}, Deep))
============================================================================
