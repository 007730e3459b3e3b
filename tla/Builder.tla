------------------------------- MODULE Builder ------------------------------
(***************************************************************************)
(* CScriptBuilder: loads script files and the files they include, leaves   *)
(* out what #if excludes, takes metadata out of the code, and attaches it  *)
(* to the declarations it stood before when the module is built.           *)
(*                                                                         *)
(* A script is a sequence of tokens without white space and comments; what *)
(* is overwritten with spaces is a token of its own.  Directives, metadata *)
(* strings and the keyword of a class or namespace with its name are one   *)
(* token each.  A path is a sequence of directories and a file name.       *)
(*                                                                         *)
(* ModulesProofs extends this module and Modules: names are those of one.  *)
(***************************************************************************)
EXTENDS Integers, Sequences, FiniteSets, SequencesExt, Functions

CONSTANTS
  File,        \* absolute paths of the files there may be
  Scripts,     \* for each of them: the contents it may have
  CurrentDir,  \* the current directory
  Named,       \* paths by which the host names files
  Memory,      \* sections from memory: names and contents
  Words,       \* words that may be defined
  Missing,     \* contents of a file that cannot be loaded
  MaxModules   \* bound: modules started

VARIABLES
  contents,    \* of each file
  words,       \* definedWords
  callback,    \* whether includeCallback is set
  included,    \* includedScripts
  sections,    \* ghost: what the module was given, and what for
  found,       \* foundDeclarations
  class,       \* currentClass
  space,       \* currentNamespace
  stack,       \* sections whose includes are being added, innermost first
  error,       \* an error is being returned
  failed,      \* ghost: one was returned since the module was started
  started,     \* modules started
  built,       \* whether the last one was built
  metadata,    \* typeMetadataMap, funcMetadataMap, varMetadataMap, classMetadataMap
  hung         \* GetAbsolutePath does not return

parsing == <<included, sections, found, class, space>>
builderVars == <<contents, words, callback, parsing, stack, error, failed, started, built, metadata, hung>>

BuilderInit ==
  /\ contents \in {c \in [File -> UNION {Scripts[f] : f \in File}] :
                     \A f \in File : c[f] \in Scripts[f]}
  /\ words = {} /\ callback = FALSE
  /\ included = {} /\ sections = <<>> /\ found = <<>>
  /\ class = "" /\ space = <<>>
  /\ stack = <<>> /\ error = FALSE /\ failed = FALSE
  /\ started = 0 /\ built = FALSE /\ metadata = {} /\ hung = FALSE

-----------------------------------------------------------------------------
(* The first pass: #if and #endif.                                         *)

Blank == <<" ">>

Is(token, kind) == token[1] = kind

(* ExcludeCode counts every #if on the way to its #endif.  Mutant: it does *)
(* not, and stops at the first one.                                        *)
ExcludedFlat(s, token) ==
  [s EXCEPT !.code = Append(@, Blank), !.excluded = IF Is(token, "endif") THEN 0 ELSE @]

Excluded(s, token) ==
  [s EXCEPT !.code = Append(@, Blank),
            !.excluded = IF Is(token, "if") THEN @ + 1
                         ELSE IF Is(token, "endif") THEN @ - 1 ELSE @]

(* An #if without an identifier is left alone, and so is an #endif that no *)
(* #if belongs to.                                                         *)
Conditional(s, token) ==
  CASE s.excluded > 0 -> Excluded(s, token)
    [] s.excluded = 0 /\ Is(token, "if") /\ Len(token) = 2 ->
         IF token[2] \in words
         THEN [s EXCEPT !.code = Append(@, Blank), !.nested = @ + 1]
         ELSE [s EXCEPT !.code = Append(@, Blank), !.excluded = 1]
    [] s.excluded = 0 /\ Is(token, "endif") /\ s.nested > 0 ->
         [s EXCEPT !.code = Append(@, Blank), !.nested = @ - 1]
    [] OTHER -> [s EXCEPT !.code = Append(@, token)]

Conditioned(script) ==
  FoldLeft(Conditional, [code |-> <<>>, nested |-> 0, excluded |-> 0], script).code

-----------------------------------------------------------------------------
(* The second pass: metadata and #include, outside of statements.          *)

(* ExtractDeclaration, for metadata at i: from the first keyword or        *)
(* identifier, which may be the "[" of more metadata, up to the "{", ";"   *)
(* or "=" that ends it.  Its name is the last identifier, even one in      *)
(* parentheses; a function is looked for by all of the text.               *)
ExtractDeclaration(code, i) ==
  LET none == [type |-> "none"]
      starts == {j \in (i + 1)..Len(code) : code[j] # Blank /\ ~Is(code[j], "shared")} IN
  IF starts = {} THEN none ELSE
  LET b == Min(starts)
      opened(e) == \E j \in b..(e - 1) : Is(code[j], "(")
      ends == {e \in (b + 1)..Len(code) : \/ Is(code[e], "{") \/ Is(code[e], ";")
                                          \/ Is(code[e], "=") /\ ~opened(e)}
      names == {j \in b..(Min(ends) - 1) :
                  \/ code[j][1] \in {"class", "interface", "enum", "namespace", "meta"}
                  \/ Is(code[j], "word") /\ j > b} IN
  IF code[b][1] \in {"class", "interface", "enum"}
  THEN [type |-> "type", name |-> code[b][2], head |-> code[b][2], whole |-> TRUE]
  ELSE IF code[b][1] \in {"include", "if", "endif"} \/ ends = {} \/ names = {} THEN none ELSE
  LET e == Min(ends)
      heads == {j \in names : opened(e) => Is(code[j + 1], "(")} IN
  [type |-> IF Is(code[e], "{") THEN (IF opened(e) THEN "func" ELSE "virtprop")
            ELSE IF opened(e) THEN "func or var" ELSE "var",
   name |-> code[Max(names)][2],
   head |-> code[Min({j \in heads : opened(e) \/ j = Max(names)})][2],
   whole |-> Is(code[b], "word")]

(* SkipStatement, one token at a time.                                     *)
Skipped(s, token) ==
  CASE s.mode # "block" /\ Is(token, ";") -> [s EXCEPT !.mode = "top"]
    [] s.mode # "block" /\ Is(token, "{") -> [s EXCEPT !.mode = "block", !.level = 1]
    [] s.mode = "block" /\ Is(token, "{") -> [s EXCEPT !.level = @ + 1]
    [] s.mode = "block" /\ Is(token, "}") ->
         [s EXCEPT !.level = @ - 1, !.mode = IF s.level = 1 THEN "top" ELSE "block"]
    [] s.mode = "top" /\ ~Is(token, ";") /\ ~Is(token, "{") -> [s EXCEPT !.mode = "statement"]
    [] OTHER -> s

(* The end of a class, or of the innermost namespace.                      *)
Closed(s) == IF s.class # "" THEN [s EXCEPT !.class = ""] ELSE [s EXCEPT !.space = Front(@)]

(* Where a statement may start: what it is decides.                        *)
AtTop(s, code, i) ==
  LET token == code[i]
      declaration == ExtractDeclaration(code, i) IN
  CASE Is(token, " ") -> s
    [] Is(token, "class") /\ s.class = "" -> [s EXCEPT !.class = token[2], !.mode = "class"]
    [] Is(token, "}") /\ (s.class # "" \/ s.space # <<>>) -> Closed(s)
    [] Is(token, "namespace") -> [s EXCEPT !.space = Append(@, token[2]), !.mode = "namespace"]
    [] Is(token, "meta") ->
         IF declaration.type = "none" THEN s
         ELSE [s EXCEPT !.found = Append(@, [meta |-> token[2], class |-> s.class,
                                             space |-> s.space, of |-> declaration])]
    [] Is(token, "include") -> [s EXCEPT !.includes = @ \cup {[at |-> i, path |-> token[2]]}]
    [] OTHER -> Skipped(s, token)

InHeader(s, token) ==
  CASE Is(token, "{") -> [s EXCEPT !.mode = "top"]
    [] Is(token, ";") /\ s.mode = "class" -> [s EXCEPT !.mode = "top", !.class = ""]
    [] OTHER -> s

(* What is taken out of the code.                                          *)
Kept(s, token) == IF s.mode = "top" /\ token[1] \in {"meta", "include"} THEN Blank ELSE token

Parsed(code) ==
  LET Token[i \in 0..Len(code)] ==
        IF i = 0
        THEN [mode |-> "top", level |-> 0, code |-> <<>>, includes |-> {},
              class |-> class, space |-> space, found |-> found]
        ELSE LET s == Token[i - 1]
                 next == CASE s.mode = "top" -> AtTop(s, code, i)
                           [] s.mode \in {"class", "namespace"} -> InHeader(s, code[i])
                           [] OTHER -> Skipped(s, code[i])
             IN [next EXCEPT !.code = Append(@, Kept(s, code[i]))]
  IN Token[Len(code)]

-----------------------------------------------------------------------------
(* Paths.  A ".." at the root makes GetAbsolutePath erase nothing for ever.*)

Absolute(path) == IF path.absolute THEN path.parts ELSE CurrentDir \o path.parts

Climbs(path) ==
  \E i \in DOMAIN Absolute(path) :
    LET before(p) == Cardinality({j \in 1..i : p[j] = ".."})
        proper(p) == Cardinality({j \in 1..i : p[j] \notin {".", ".."}})
    IN before(Absolute(path)) > proper(Absolute(path))

Entered(dirs, part) ==
  CASE part = "." -> dirs [] part = ".." -> Front(dirs) [] OTHER -> Append(dirs, part)

GetAbsolutePath(path) == FoldLeft(Entered, <<>>, Absolute(path))

(* An included file, named relative to the file that includes it.          *)
Relative(name, path) ==
  IF path.absolute THEN path
  ELSE [absolute |-> name.absolute, parts |-> Front(name.parts) \o path.parts]

-----------------------------------------------------------------------------
Idle == stack = <<>> /\ ~error /\ ~hung

(* ProcessScriptSection, up to its includes; rest is what it returns to.   *)
ProcessScriptSection(name, script, rest) ==
  /\ \E code \in {Conditioned(script)} : \E p \in {Parsed(code)} :
       /\ class' = p.class /\ space' = p.space /\ found' = p.found
       /\ sections' = Append(sections, [name |-> name, script |-> script, words |-> words,
                                        code |-> p.code, includes |-> p.includes,
                                        from |-> Len(found), to |-> Len(p.found)])
       /\ stack' = <<[name |-> name, includes |-> p.includes]>> \o rest
  /\ UNCHANGED <<error, failed>>

Fails(rest) ==
  /\ stack' = rest /\ error' = (rest # <<>>) /\ failed' = TRUE
  /\ UNCHANGED <<sections, found, class, space>>

(* The set of included sections before a section of that name is added:    *)
(* the name is taken down even if the file cannot be loaded then.  Mutant: *)
(* a name that is there already is not looked for.                         *)
AlreadyNever(name) == FALSE

Already(name) == name \in included

Resolved(path) == [absolute |-> TRUE, parts |-> GetAbsolutePath(path)]

(* AddSectionFromFile.                                                     *)
AddFile(path, rest) ==
  LET file == Resolved(path) IN
  IF Climbs(path)
  THEN hung' = TRUE /\ UNCHANGED <<parsing, stack, error, failed>>
  ELSE /\ included' = included \cup {file}
       /\ UNCHANGED hung
       /\ IF Already(file)
          THEN stack' = rest /\ UNCHANGED <<sections, found, class, space, error, failed>>
          ELSE IF file.parts \notin File \/ contents[file.parts] = Missing
          THEN Fails(rest)
          ELSE ProcessScriptSection(file, contents[file.parts], rest)

(* ClearAll, too: what is known of the members of classes stays.           *)
StartNewModule ==
  /\ Idle /\ started < MaxModules
  /\ started' = started + 1
  /\ included' = {} /\ sections' = <<>> /\ found' = <<>> /\ class' = "" /\ space' = <<>>
  /\ metadata' = {d \in metadata : d.class # ""}
  /\ failed' = FALSE /\ built' = FALSE
  /\ UNCHANGED <<contents, words, callback, stack, error, hung>>

AddSectionFromFile ==
  /\ Idle /\ started > 0 /\ ~built
  /\ \E path \in Named : AddFile(path, <<>>)
  /\ UNCHANGED <<contents, words, callback, started, built, metadata>>

(* The name of a section from memory is taken as it is.                    *)
AddSectionFromMemory ==
  /\ Idle /\ started > 0 /\ ~built
  /\ \E m \in Memory :
       /\ ~Already(m.name)
       /\ included' = included \cup {m.name}
       /\ ProcessScriptSection(m.name, m.script, <<>>)
  /\ UNCHANGED <<contents, words, callback, started, built, metadata, hung>>

DefineWord ==
  /\ Idle
  /\ \E w \in Words \ words : words' = words \cup {w}
  /\ UNCHANGED <<contents, callback, parsing, stack, error, failed, started, built, metadata, hung>>

SetIncludeCallback ==
  /\ Idle /\ started = 0 /\ ~callback
  /\ callback' = TRUE
  /\ UNCHANGED <<contents, words, parsing, stack, error, failed, started, built, metadata, hung>>

-----------------------------------------------------------------------------
(* The includes of a section, after it was added, one by one.              *)
Including == stack # <<>> /\ ~error /\ ~hung /\ Head(stack).includes # {}

NextInclude ==
  CHOOSE x \in Head(stack).includes : \A y \in Head(stack).includes : x.at <= y.at

Included == Relative(Head(stack).name, NextInclude.path)

Remaining ==
  <<[name |-> Head(stack).name, includes |-> Head(stack).includes \ {NextInclude}]>> \o Tail(stack)

Include ==
  /\ Including /\ ~callback
  /\ AddFile(Included, Remaining)
  /\ UNCHANGED <<contents, words, callback, started, built, metadata>>

(* The host's callback refuses, does nothing, or adds the file.            *)
CallbackRefuses ==
  /\ Including /\ callback
  /\ Fails(Remaining)
  /\ UNCHANGED <<contents, words, callback, included, started, built, metadata, hung>>

CallbackIgnores ==
  /\ Including /\ callback
  /\ stack' = Remaining
  /\ UNCHANGED <<contents, words, callback, parsing, error, failed, started, built, metadata, hung>>

CallbackAdds ==
  /\ Including /\ callback
  /\ AddFile(Included, Remaining)
  /\ UNCHANGED <<contents, words, callback, started, built, metadata>>

SectionReturns ==
  /\ stack # <<>> /\ ~error /\ ~hung /\ Head(stack).includes = {}
  /\ stack' = Tail(stack)
  /\ UNCHANGED <<contents, words, callback, parsing, error, failed, started, built, metadata, hung>>

(* An error ends every section on the way, unless a callback returns       *)
(* something else.                                                         *)
ErrorReturns ==
  /\ error
  /\ stack' = Tail(stack) /\ error' = (Tail(stack) # <<>>)
  /\ UNCHANGED <<contents, words, callback, parsing, failed, started, built, metadata, hung>>

CallbackGoesOn ==
  /\ error /\ callback
  /\ error' = FALSE
  /\ UNCHANGED <<contents, words, callback, parsing, stack, failed, started, built, metadata, hung>>

-----------------------------------------------------------------------------
(* What a script says, by its braces and directives, for Build to find and *)
(* for the properties.                                                     *)
Count(code, kind, i, j) == Cardinality({k \in i..j : Is(code[k], kind)})

(* Those of a kind that are open before i.                                 *)
Open(code, opens, closes, i) ==
  {j \in 1..(i - 1) : Is(code[j], opens)
     /\ \A k \in j..(i - 1) : Count(code, opens, j, k) > Count(code, closes, j, k)}

(* The class or namespace whose "{" is at j, or 0.                         *)
Header(code, j) ==
  LET h == {k \in 1..(j - 1) :
              /\ Is(code[k], "class") \/ Is(code[k], "namespace")
              /\ \A n \in (k + 1)..(j - 1) : Is(code[n], "word") \/ Is(code[n], " ")}
  IN IF h = {} THEN 0 ELSE CHOOSE k \in h : TRUE

Headers(code, i) == {Header(code, j) : j \in Open(code, "{", "}", i)}

ClassAt(code, i) ==
  IF \E k \in Headers(code, i) : Is(code[k], "class")
  THEN code[CHOOSE k \in Headers(code, i) : Is(code[k], "class")][2] ELSE ""

SpaceAt(code, i) ==
  LET names == SelectSeq([k \in 1..(i - 1) |-> k],
                         LAMBDA k : k \in Headers(code, i) /\ Is(code[k], "namespace"))
  IN [n \in DOMAIN names |-> code[names[n]][2]]

(* Where a statement, directive or metadata string starts outside of       *)
(* functions.                                                              *)
Starts(code, i) ==
  /\ 0 \notin Headers(code, i)
  /\ LET before == {j \in 1..(i - 1) : ~Is(code[j], " ")} IN
     before = {} \/ code[Max(before)][1] \in {";", "{", "}", "meta", "include"}

(* What the statement declares that starts at i: a type, or the name after *)
(* a type, and what follows the name says what it is.  `last` is the last  *)
(* name that it has before its end.                                        *)
Declares(code, i) ==
  LET text == SelectSeq(SubSeq(code, i, Len(code)),
                        LAMBDA t : ~Is(t, " ") /\ ~Is(t, "meta") /\ ~Is(t, "shared"))
      Entity(kind, cl, name, last) ==
        [kind |-> kind, class |-> cl, space |-> SpaceAt(code, i), name |-> name, last |-> last] IN
  IF text[1][1] \in {"class", "interface", "enum"}
  THEN Entity("type", "", text[1][2], text[1][2])
  ELSE LET after == text[3][1]
           close == IF after = "(" THEN Min({j \in DOMAIN text : Is(text[j], ")")}) ELSE 3
           inside == {2} \cup {j \in 2..close : Is(text[j], "word")}
       IN Entity(CASE after = "{" -> "virtprop"
                   [] after = "(" /\ Is(text[close + 1], "{") -> "func" [] OTHER -> "var",
                 ClassAt(code, i), text[2][2], text[Max(inside)][2])

(* All that it declares.                                                   *)
Declared(code) ==
  LET at == SelectSeq([i \in DOMAIN code |-> i],
                      LAMBDA i : code[i][1] \in {"word", "class", "interface", "enum", "shared"}
                                   /\ Starts(code, i))
  IN <<>> \o [k \in DOMAIN at |-> Declares(code, at[k])]

(* Metadata that is the only one before what it stands before.             *)
Alone(code, i) ==
  LET before == {j \in 1..(i - 1) : ~Is(code[j], " ")}
      after == {j \in (i + 1)..Len(code) : ~Is(code[j], " ")}
  IN /\ before = {} \/ ~Is(code[Max(before)], "meta")
     /\ ~Is(code[Min(after)], "meta")

(* The code that the directives of a script leave.                         *)
Left(script, defined) ==
  <<>> \o [i \in DOMAIN script |->
    IF \/ script[i][1] \in {"if", "endif"}
       \/ \E j \in Open(script, "if", "endif", i) : script[j][2] \notin defined
    THEN Blank ELSE script[i]]

StartsOf(code, kind) ==
  SelectSeq([i \in DOMAIN code |-> i], LAMBDA i : Is(code[i], kind) /\ Starts(code, i))

(* All that they say, for each script and the words that may be defined.   *)
Lefts ==
  {[script |-> s, words |-> w, code |-> Left(s, w)] :
     s \in UNION {Scripts[f] : f \in File} \cup {m.script : m \in Memory}, w \in SUBSET Words}

Starting ==
  {[left |-> l, metas |-> StartsOf(l.code, "meta"), includes |-> StartsOf(l.code, "include")] : l \in Lefts}

Readings ==
  {[script |-> r.left.script,
    words |-> r.left.words,
    code |-> <<>> \o [i \in DOMAIN r.left.code |->
               IF i \in Range(r.metas) \cup Range(r.includes) THEN Blank ELSE r.left.code[i]],
    metas |-> <<>> \o [k \in DOMAIN r.metas |->
               [meta |-> r.left.code[r.metas[k]][2], class |-> ClassAt(r.left.code, r.metas[k]),
                space |-> SpaceAt(r.left.code, r.metas[k]),
                of |-> Declares(r.left.code, r.metas[k]),
                alone |-> Alone(r.left.code, r.metas[k])]],
    includes |-> {r.left.code[i][2] : i \in Range(r.includes)},
    declared |-> Declared(r.left.code)] : r \in Starting}

(* What a section says.                                                    *)
Said(n) == CHOOSE r \in Readings : r.script = sections[n].script /\ r.words = sections[n].words

-----------------------------------------------------------------------------
Known(entity, meta) == [kind |-> entity.kind, class |-> entity.class, space |-> entity.space,
                        name |-> entity.name, module |-> started, meta |-> meta]

(* Mutant: members of classes are looked for among the globals.            *)
TargetGlobal(d, declared) ==
  {e \in declared : /\ e.class = "" /\ e.space = d.space
                    /\ IF d.of.type = "func or var" THEN e.kind = "var" /\ e.name = d.of.name
                       ELSE e.kind = d.of.type /\ e.name = d.of.head}

(* Build: what a declaration with metadata is found to be, of all that the *)
(* module declares, if anything.  One with parentheses is a variable if    *)
(* there is one of the name.                                               *)
Target(d, declared) ==
  LET named(kind, cl, name) ==
        {e \in declared : e.kind = kind /\ e.class = cl /\ e.space = d.space /\ e.name = name}
      function == IF d.of.whole THEN named("func", d.class, d.of.head) ELSE {}
      variable == named("var", d.class, d.of.name) IN
  CASE d.of.type = "type" -> named("type", "", d.of.name)
    [] d.of.type = "func" -> function
    [] d.of.type = "func or var" -> IF variable # {} THEN variable ELSE function
    [] OTHER -> named(d.of.type, d.class, d.of.name)

(* map::insert keeps what is there.                                        *)
Attached(known, entities, meta) ==
  known \cup {Known(e, meta) : e \in {x \in entities : \A k \in known : k # Known(x, k.meta)}}

(* What the compiler refuses: directives, metadata outside of functions    *)
(* (within, a "[" is that of an index), and two declarations of one name.  *)
Compiles ==
  /\ \A n \in DOMAIN sections : \A i \in DOMAIN sections[n].code :
       LET code == sections[n].code IN
       /\ code[i][1] \notin {"if", "endif", "include"}
       /\ Is(code[i], "meta") => 0 \in Headers(code, i)
  /\ LET all == FlattenSeq([n \in DOMAIN sections |-> Said(n).declared]) IN
     Cardinality({<<d.class, d.space, d.name>> : d \in Range(all)}) = Len(all)

Build ==
  /\ Idle /\ started > 0 /\ ~built /\ sections # <<>> /\ Compiles
  /\ built' = TRUE
  /\ LET declared == UNION {Range(Said(n).declared) : n \in DOMAIN sections} IN
     metadata' = FoldLeft(LAMBDA known, d : Attached(known, Target(d, declared), d.meta),
                          metadata, found)
  /\ UNCHANGED <<contents, words, callback, parsing, stack, error, failed, started, hung>>

BuilderNext ==
  \/ StartNewModule \/ AddSectionFromFile \/ AddSectionFromMemory \/ DefineWord
  \/ SetIncludeCallback \/ Include \/ CallbackRefuses \/ CallbackIgnores \/ CallbackAdds
  \/ SectionReturns \/ ErrorReturns \/ CallbackGoesOn \/ Build

BuilderSpec == BuilderInit /\ [][BuilderNext]_builderVars

-----------------------------------------------------------------------------
(* Properties.                                                             *)

(* Only a class whose declaration starts with the word is looked into.     *)
Regular(script) ==
  \A i \in 1..(Len(script) - 1) : ~(Is(script[i], "shared") /\ Is(script[i + 1], "class"))

(* Sections are compiled without what their #if exclude, and without the   *)
(* metadata and includes outside of functions, with every other token; the *)
(* metadata is recorded in order, each with the class and the namespaces   *)
(* that it stands in, whatever files were parsed before and in between.    *)
(* Whatever classes are declared, the files included are those outside of  *)
(* functions.                                                              *)
Parses ==
  \A n \in DOMAIN sections :
    LET says == Said(n) IN
    /\ {x.path : x \in sections[n].includes} = says.includes
    /\ Regular(sections[n].script) =>
         /\ sections[n].code = says.code
         /\ sections[n].to - sections[n].from = Len(says.metas)
         /\ \A k \in DOMAIN says.metas :
              LET d == found[sections[n].from + k] IN
              /\ d.meta = says.metas[k].meta /\ d.class = says.metas[k].class
              /\ d.space = says.metas[k].space

(* When the host's calls have succeeded, the module has every file that a  *)
(* section of it includes, resolved from the section's own directory, and  *)
(* no section twice, in spite of cycles.                                   *)
Complete ==
  /\ \A m, n \in DOMAIN sections : sections[m].name = sections[n].name => m = n
  /\ Idle /\ ~failed /\ ~callback =>
       \A n \in DOMAIN sections : \A x \in sections[n].includes :
         \E m \in DOMAIN sections :
           sections[m].name = Resolved(Relative(sections[n].name, x.path))

(* After a build a metadata string that is alone before a declaration is   *)
(* found with what it declares, by its class, its namespaces and its name, *)
(* and none is found with anything that it does not stand before, whatever *)
(* other sections and earlier modules declare.  That is not so when a name *)
(* in the parentheses after a variable is taken for the variable's.        *)
AttachedToOwn ==
  LET metas == UNION {Range(Said(n).metas) : n \in DOMAIN sections}
      Misread(name) ==
        \E m \in metas : m.of.last # m.of.name /\ name \in {m.of.last, m.of.name}
  IN built =>
       /\ \A m \in metas :
            m.alone /\ ~Misread(m.of.name) => Known(m.of, m.meta) \in metadata
       /\ \A k \in {x \in metadata : x.module = started} :
            Misread(k.name) \/ \E m \in metas : Known(m.of, m.meta) = k
=============================================================================
