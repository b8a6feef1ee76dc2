----------------------------- MODULE MCCallGraph -----------------------------
(* Three modules: modA has the entry nameF and a helper nameG, modB is a library or
   a barrel, modC a library. *)
EXTENDS CallGraph, TLC

CONSTANTS modA, modB, modC, pkg, missing, nameF, nameG

MCModules == {modA, modB, modC}
MCNames == {nameF, nameG}
MCEntry == <<modA, nameF>>

Call(n) == [form |-> "call", name |-> n]
Hiding(effect, sites, declared, unseen) ==
  [effect |-> effect, sites |-> sites, declared |-> declared, unseen |-> unseen]
Plain(effect, sites) == Hiding(effect, sites, {}, {})
Function(body) == [kind |-> "function", body |-> body]
Import(from, n) == [kind |-> "import", from |-> from, name |-> n]
Class(constructor, methods, fields) ==
  [kind |-> "class", constructor |-> constructor, methods |-> methods, fields |-> fields, base |-> None]
Derived(constructor, base) == [Class(constructor, {}, "likely-safe") EXCEPT !.base = base]
Nothing == [kind |-> "none"]
NoReexports == [n \in MCNames |-> None]
Text(first, second, reexports, initial, directives) ==
  [scope |-> (nameF :> first @@ nameG :> second), exported |-> MCNames, reexports |-> reexports,
   initial |-> initial, directives |-> directives]

Leaf == {Function(Plain(e, {})) : e \in BOOLEAN}
Classes2 == {Class({}, {}, "refuted"), Class({Plain(TRUE, {})}, {Plain(FALSE, {})}, "likely-safe"),
             Class({Plain(FALSE, {})}, {Plain(TRUE, {}), Plain(FALSE, {})}, "likely-safe")}

EntryBodies ==
  {Plain(e, {[form |-> x, name |-> nameG]}) : e \in {FALSE}, x \in Forms}
    \cup {Plain(TRUE, {}), Plain(FALSE, {Call(nameF), Call(nameG)})}
Seconds == {Function(Plain(FALSE, {Call(nameF)})), Function(Plain(TRUE, {})), Nothing,
            [kind |-> "alias", of |-> nameF], Import(modB, nameF), Import(modC, nameG), Import(modB, "*"),
            Import(missing, nameF)} \cup Classes2
ATexts ==
  {Text(Function(x), y, NoReexports, "likely-safe", d) :
     x \in EntryBodies, y \in Seconds, d \in {{"capture"}, {"capture", "assume-pure"}}}
  \cup {Text(Function(Plain(FALSE, {Call(nameG)})), Import(modB, nameF), NoReexports, "refuted", {"capture"}),
        Text(Function(Plain(FALSE, {})), Import(modB, nameF), NoReexports, "likely-safe", {"capture", "exclude"}),
        Text(Function(Plain(FALSE, {Call(nameG)})), Import(modC, nameG),
             (nameF :> None @@ nameG :> [from |-> modB, name |-> nameF]), "likely-safe", {"capture", "assume-pure"}),
        Text(Function(Hiding(FALSE, {Call(nameG)}, {nameG}, {})), Import(modB, nameF),
             NoReexports, "likely-safe", {"capture"}),
        Text(Nothing, Import(modB, nameF),
             (nameF :> [from |-> modB, name |-> nameF] @@ nameG :> None), "likely-safe", {"capture"})}
BTexts ==
  {Text(Function(Plain(FALSE, {Call(nameG)})), x, NoReexports, "likely-safe", {}) :
     x \in {Function(Plain(FALSE, {Call(nameF)})), Import(modC, nameF), Import(modA, nameF), Import(missing, nameF), Nothing}}
  \cup {Text(x, Nothing, NoReexports, i, {}) : x \in Leaf \cup Classes2, i \in {"likely-safe", "refuted"}}
  \cup {Text(Nothing, Nothing, (nameF :> [from |-> x, name |-> nameF] @@ nameG :> None), "likely-safe", {}) :
          x \in {modC, missing}}
  \cup {Text(Derived(x, nameG), Class({Plain(TRUE, {})}, {}, "likely-safe"), NoReexports, "likely-safe", {}) :
          x \in {{}, {Plain(TRUE, {})}}}
  \cup {Text(Class({}, {Plain(FALSE, {})}, "likely-safe"), Nothing, (nameF :> [from |-> modC, name |-> nameF] @@ nameG :> None),
             "likely-safe", {})}
CTexts ==
  {Text(x, Function(Plain(FALSE, {Call(nameF)})), NoReexports, "likely-safe", {}) :
     x \in Leaf \cup {Import(modB, nameF), Import(modA, nameF)}}
  \cup {Text(Nothing, Nothing, (nameF :> None @@ nameG :> [from |-> modB, name |-> nameF]), "likely-safe", {})}

\* Programs that import a package, alone in a module.
PackageTexts ==
  {Text(Function(Hiding(FALSE, {[form |-> x, name |-> nameG]}, s, u)),
        Import(pkg, n), NoReexports, "likely-safe", {"capture"}) :
     x \in {"call", "member", "new"}, s \in {{}, {nameG}}, u \in {{}, {nameG}}, n \in {nameF, "*"}}
Versions == {0, 1} \X {0, 1, 2} \X {0, 1}
Vouch(x, u, prefix, v) ==
  [package |-> pkg, export |-> x, unpinned |-> u, prefix |-> prefix, version |-> v]
Vouches ==
  {Vouch(nameF, FALSE, x, v) : x \in {"", "~", "^"}, v \in {<<0, 0, 1>>, <<0, 1, 0>>, <<1, 0, 0>>, <<1, 1, 1>>}}
  \cup {Vouch("member", FALSE, "^", <<1, 0, 0>>), Vouch(nameF, TRUE, "", <<1, 0, 0>>)}
Lock(format, v, others) == [format |-> format, root |-> v, others |-> others]
Npm(v) == Lock("package-lock.json", v, {})
PackageLocks ==
  {{}, {Lock("bun.lockb", <<1, 0, 0>>, {})}, {Npm(<<1, 0, 0>>), Lock("yarn.lock", <<0, 1, 0>>, {})}}
  \cup {{Npm(v)} : v \in Versions} \cup {{Lock("yarn.lock", v, {<<1, 0, 0>>})} : v \in Versions}
PlainLocks == {{Npm(<<1, 0, 0>>)}}

Files(x, y, z) == (modA :> x @@ modB :> y @@ modC :> z)
ImportProjects ==
  {[files |-> Files(x, y, z), catalog |-> {}, lockfiles |-> l] :
     x \in ATexts, y \in BTexts, z \in CTexts, l \in PlainLocks}
PackageProjects ==
  {[files |-> Files(x, CHOOSE t \in BTexts : TRUE, CHOOSE t \in CTexts : TRUE),
    catalog |-> y, lockfiles |-> l] :
     x \in PackageTexts, y \in {{}} \cup {{v} : v \in Vouches}, l \in PackageLocks}
MCProjects == ImportProjects \cup PackageProjects
EditedLocks == {{}, {Npm(<<1, 1, 0>>)}}
MCEdited ==
  [m \in MCModules |->
     IF m = modA THEN {Text(Function(Plain(FALSE, {Call(nameG)})), Import(modB, nameF), NoReexports, "likely-safe",
                         {"capture", "assume-pure"}),
                    Text(Function(Plain(FALSE, {Call(nameG)})), Nothing, NoReexports, "likely-safe", {"capture"})}
     ELSE {Text(Function(Plain(TRUE, {})), Nothing, NoReexports, "likely-safe", {}),
           Text(Function(Plain(FALSE, {Call(nameG)})), Nothing, NoReexports, "likely-safe", {})}]
=============================================================================
