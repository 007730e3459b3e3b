------------------------------ MODULE BuilderMC -----------------------------
(* Four files in two directories that include each other, with classes,    *)
(* namespaces, conditions and declarations of each kind.                   *)
EXTENDS Builder, TLC

W(s) == <<"word", s>>
T(s) == <<s>>
I(parts) == <<"include", [absolute |-> FALSE, parts |-> parts]>>
M(s) == <<"meta", s>>

MCCurrentDir == <<"w">>
A == <<"w", "a">>
B == <<"w", "d", "b">>
C == <<"w", "c">>
D == <<"w", "d", "c">>
MCFile == {A, B, C, D}

Variable == <<M("m1"), W("int"), W("x"), T(";")>>
Function == <<M("m2"), W("void"), W("f"), T("("), T(")"), T("{"), W("x"), M("index"), T(";"), T("}")>>
Class == <<M("m3"), <<"class", "K">>, T("{")>> \o Variable \o Function \o <<T("}")>>
Property == <<M("m4"), W("int"), W("p"), T("{"), W("get"), T("{"), T("}"), T("}")>>
Interface == <<M("m8"), <<"interface", "J">>, T("{"), W("void"), W("g"), T("("), T(")"), T(";"), T("}")>>
Made == <<M("m5"), W("K"), W("y"), T("("), W("x"), T(")"), T(";")>>
Again == <<M("m0"), M("m6"), W("int"), W("z"), T("="), W("y"), T(";")>>
Enum == <<M("m9"), <<"enum", "E">>, T("{"), W("first"), T("}")>>
Shared == <<M("m7"), T("shared"), <<"class", "S">>, T("{")>> \o Variable \o <<T("}"), I(<<"c">>)>>

In(name, code) == <<<<"namespace", name>>, T("{")>> \o code \o <<T("}")>>
If(word, code) == <<<<"if", word>>>> \o code \o <<T("endif")>>

MCScripts == [f \in MCFile |->
  CASE f = A -> {<<I(<<"d", "b">>)>> \o Variable,
                 If("V", If("U", <<I(<<"c">>)>>) \o <<I(<<"d", "c">>)>>) \o Class \o Variable,
                 In("N", In("O", Class \o Made) \o <<I(<<"c">>)>> \o Function) \o Again,
                 Shared}
    [] f = B -> {<<I(<<"..", "a">>), I(<<"c">>)>> \o Function \o Again,
                 <<I(<<".", "c">>)>> \o If("U", In("N", Class)) \o Again,
                 Missing}
    [] f = C -> {If("V", Function) \o <<I(<<"d", "c">>)>> \o Made, Variable,
                 <<I(<<"..", "..", "x">>)>>}
    [] OTHER -> {Property \o Interface \o Enum}]

MCNamed == {[absolute |-> TRUE, parts |-> A], [absolute |-> FALSE, parts |-> <<"d", "..", "a">>],
            [absolute |-> FALSE, parts |-> <<"c">>]}

MCMemory == {[name |-> [absolute |-> FALSE, parts |-> <<"d", "m">>],
              script |-> <<I(<<"c">>)>> \o In("N", Variable)]}

MCMissing == <<T("missing")>>
=============================================================================
