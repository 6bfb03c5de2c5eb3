-------------------------- MODULE MCModuleInstance --------------------------
(***************************************************************************)
(* Modules to compile and load.  Each plan lets a few sections vary and    *)
(* fixes the others; the sizes are scaled down: a page has 8 bytes, the    *)
(* address space 4 pages, a name 4 bytes.                                  *)
(***************************************************************************)
EXTENDS ModuleInstance

MCLimits ==
    [string |-> 4, types |-> 4, params |-> 2, results |-> 2, imported |-> 3, functions |-> 3,
     tableEntries |-> 3, globals |-> 3, directLocals |-> 3]

\* None is a multiple of four: code is padded.
MCBlobBytes ==
    [what \in {"trap handler", "entry", "adapter", "body", "extension", "landing pad"} |->
        CASE what = "trap handler" -> 10 [] what = "entry" -> 13 [] what = "adapter" -> 6
          [] what = "body" -> 9 [] what = "extension" -> 7 [] OTHER -> 5]

\* Names.
A == <<97>>
B == <<98, 98>>
M == <<109>>
Long == <<97, 98, 99, 100, 101>>
Broken == <<97, 128>>

MCBuiltinModule == B
MCBuiltins == {<<A, Signature(<<>>, <<"i">>)>>}
MCValues == {77}
MCProbes == {A, B, <<97, 98>>}

Exact(kind, items) == [kind |-> kind, size |-> "exact", items |-> items]

Custom(name, items) == [kind |-> "custom", size |-> "exact", name |-> name, items |-> items]

Absent == [kind |-> "none"]

\* One slot for each kind, absent where alternatives has no such kind.
SlotsFor(alternatives) ==
    LET given == SelectSeq(SubSeq(SectionOrder, 1, 12), LAMBDA kind : kind \in DOMAIN alternatives)
    IN  [i \in DOMAIN given |-> alternatives[given[i]]]

\* The same section with each of several contents.
Each(kind, contents) == [i \in DOMAIN contents |-> Exact(kind, contents[i])]

Func(params, results) == [form |-> "func", params |-> params, results |-> results]

Types == <<Func(<<>>, <<>>), Func(<<>>, <<"i">>), Func(<<>>, <<>>), Func(<<"i", "F">>, <<"I">>)>>

Import(module, name, kind, type, mutability) ==
    [module |-> module, name |-> name, kind |-> kind, type |-> type, mutability |-> mutability]

ImportFunc(name, type) == Import(M, name, "func", type, 0)

BuiltinImport == Import(B, A, "func", 1, 0)

Symbol(name, signature, linkage, pointer) ==
    [module |-> M, name |-> name, signature |-> signature, linkage |-> linkage, pointer |-> pointer]

Symbols ==
    <<Symbol(A, Signature(<<>>, <<>>), "STATIC", 501),
      Symbol(A, Signature(<<>>, <<"i">>), "DYNAMIC", 502),
      Symbol(B, Signature(<<>>, <<>>), "DYNAMIC", 503)>>

Later == <<Symbol(B, Signature(<<>>, <<>>), "DYNAMIC", 603),
           Symbol(A, Signature(<<>>, <<"i">>), "DYNAMIC", 602)>>

GlobalSymbols == <<[module |-> M, name |-> A, type |-> "i", value |-> 41],
                   [module |-> M, name |-> A, type |-> "F", value |-> 42]>>

Plain ==
    [symbols |-> <<>>, defaults |-> <<>>, globals |-> <<>>, allowUnknownImports |-> FALSE,
     stacktraceRecords |-> 0, debug |-> FALSE, pointerBytes |-> 8, active |-> TRUE, room |-> 100]

Good(options, slots, runtimes) ==
    [options |-> options, header |-> "good", slots |-> slots, runtimes |-> runtimes]

Body == [locals |-> <<>>, error |-> "", terminated |-> TRUE, sizeMatches |-> TRUE]

Export(name, kind, index) == [name |-> name, kind |-> kind, index |-> index]

(* What stands before the sections. *)
Headers ==
    LET With(header) == [options |-> Plain, header |-> header,
                         slots |-> <<<<Exact("type", Types)>>>>, runtimes |-> <<<<>>>>]
    IN  <<With("none"), With("magic"), With("version")>>

(* Types, functions and their bodies. *)
TypeContents ==
    <<Types, Append(Types, Types[1]), <<[Types[1] EXCEPT !.form = "other"]>>,
      <<Func(<<"i", "i", "i">>, <<>>)>>, <<Func(<<"i", "reference">>, <<>>)>>,
      <<Func(<<"other">>, <<>>)>>, <<Func(<<>>, <<"i", "I", "f">>)>>,
      <<Func(<<>>, <<"reference">>)>>, <<Types[2], Func(<<"f">>, <<"f", "other">>)>>,
      <<Types[2], Types[4], Types[4]>>>>

Locals(first, second) == <<[count |-> 2, type |-> "i"], [count |-> second, type |-> first]>>

CodeContents ==
    <<<<Body, [Body EXCEPT !.locals = Locals("F", 1)]>>, <<Body>>, <<Body, Body, Body>>,
      <<Body, [Body EXCEPT !.locals = Locals("F", 2)]>>,
      <<[Body EXCEPT !.locals = Locals("reference", 1)], Body>>,
      <<[Body EXCEPT !.locals = Locals("other", 1)], Body>>,
      <<Body, [Body EXCEPT !.error = "Validation_failed"]>>,
      <<Body, [Body EXCEPT !.terminated = FALSE]>>, <<[Body EXCEPT !.sizeMatches = FALSE], Body>>>>

Bodies ==
    Good(Plain, SlotsFor(
        [type     |-> Append(Each("type", TypeContents), Absent),
         function |-> Append(Each("function", <<<<0, 2>>, <<1, 2>>, <<0, 4>>, <<0, 0, 0, 0>>, <<>>>>), Absent),
         export   |-> Each("export", <<<<Export(A, "func", 0), Export(B, "func", 1)>>,
                                       <<Export(A, "func", 1), Export(Long, "func", 0)>>>>)
                      \o <<Absent>>,
         code     |-> Append(Each("code", CodeContents), Absent)]), <<<<>>>>)

(* Imports and what they are linked with, then and later. *)
ImportContents ==
    <<<<ImportFunc(A, 2), ImportFunc(B, 0), BuiltinImport>>, <<ImportFunc(A, 1), ImportFunc(B, 2)>>,
      <<ImportFunc(A, 3)>>, <<ImportFunc(A, 4)>>, <<ImportFunc(Long, 0)>>,
      <<ImportFunc(A, 0), ImportFunc(A, 0), ImportFunc(A, 0), ImportFunc(A, 0)>>,
      <<Import(M, A, "global", "i", 0), ImportFunc(B, 0), Import(M, A, "global", "F", 0)>>,
      <<Import(M, A, "global", "I", 0)>>, <<Import(M, A, "global", "i", 1)>>,
      <<Import(M, A, "global", "i", 2)>>, <<Import(M, A, "global", "reference", 0)>>,
      <<Import(M, A, "global", "other", 0)>>,
      <<Import(M, A, "table", 0, 0)>>, <<Import(M, A, "mem", 0, 0)>>, <<Import(M, A, "tag", 0, 0)>>,
      <<Import(Long, A, "func", 0, 0)>>, <<Import(M, Broken, "func", 0, 0)>>>>

Global(type, mutability, op, value) ==
    [type |-> type, mutability |-> mutability, op |-> op, value |-> value, end |-> "end"]

GlobalContents ==
    <<<<Global("i", 1, "i", 11), Global("F", 1, "F", 12), Global("f", 1, "f", 13)>>,
      <<Global("I", 1, "I", 14), Global("i", 1, "i", 15)>>,
      <<Global("F", 0, "F", 16), Global("i", 0, "i", 17), Global("I", 1, "I", 18)>>>>

LinkingSlots(globals, exports) ==
    SlotsFor([type     |-> Each("type", <<Types>>),
              import   |-> Append(Each("import", ImportContents), Absent),
              function |-> Append(Each("function", <<<<3>>>>), Absent),
              global   |-> globals,
              export   |-> exports,
              code     |-> Append(Each("code", <<<<Body>>>>), Absent)])

LinkingExports ==
    Each("export", <<<<Export(A, "func", 0), Export(B, "func", 2)>>, <<Export(A, "global", 1)>>>>)

LinkingRuntimes == <<<<>>, Symbols, SubSeq(Symbols, 2, 3), Later, Later \o SubSeq(Symbols, 2, 2)>>

Linking ==
    <<Good([Plain EXCEPT !.symbols = Symbols],
           LinkingSlots(Append(Each("global", SubSeq(GlobalContents, 1, 2)), Absent), LinkingExports),
           LinkingRuntimes),
      Good([Plain EXCEPT !.symbols = SubSeq(Symbols, 2, 2), !.defaults = Symbols, !.pointerBytes = 4],
           LinkingSlots(Each("global", SubSeq(GlobalContents, 1, 2)), <<Absent>>), LinkingRuntimes),
      Good([Plain EXCEPT !.symbols = SubSeq(Symbols, 3, 3), !.allowUnknownImports = TRUE],
           LinkingSlots(<<Absent>>, LinkingExports), LinkingRuntimes),
      Good([Plain EXCEPT !.defaults = SubSeq(Symbols, 1, 2), !.globals = GlobalSymbols],
           LinkingSlots(Append(Each("global", SubSeq(GlobalContents, 2, 3)), Absent), LinkingExports),
           LinkingRuntimes)>>

(* Globals. *)
GlobalVariants ==
    GlobalContents \o
    <<<<Global("i", 1, "i", 11), Global("i", 1, "i", 12), Global("i", 1, "i", 13), Global("i", 1, "i", 14)>>,
      <<Global("i", 1, "global.get", 0), Global("F", 1, "global.get", 1)>>,
      <<Global("F", 1, "global.get", 0)>>, <<Global("i", 0, "global.get", 2)>>,
      <<Global("i", 0, "I", 11)>>, <<Global("i", 2, "i", 11)>>, <<Global("reference", 0, "i", 11)>>,
      <<Global("other", 0, "i", 11)>>, <<Global("i", 0, "extended", 11)>>,
      <<Global("i", 0, "vector", 11)>>, <<Global("i", 0, "end", 11)>>,
      <<[Global("i", 0, "i", 11) EXCEPT !.end = "i"]>>,
      <<Global("f", 1, "f", 19), [Global("i", 0, "i", 11) EXCEPT !.end = "extended"]>>>>

Globals ==
    LET exports(first, second) ==
            <<Export(A, "global", first), Export(B, "global", second), Export(M, "global", first)>>
        With(options) == Good(options, SlotsFor(
            [import |-> <<Exact("import", <<Import(M, A, "global", "i", 0), Import(M, A, "global", "F", 0)>>),
                          Absent>>,
             global |-> Append(Each("global", GlobalVariants), Absent),
             export |-> Each("export", <<exports(0, 1), exports(2, 3), exports(1, 4), exports(5, 0),
                                         <<Export(A, "global", 0), Export(A, "global", 1)>>>>)]), <<<<>>>>)
    IN  <<With([Plain EXCEPT !.globals = GlobalSymbols]), With([Plain EXCEPT !.debug = TRUE])>>

(* Tables, their segments and the start function. *)
Table(element, flag, initial, maximum) ==
    [element |-> element, flag |-> flag, initial |-> initial, maximum |-> maximum]

TableContents ==
    <<<<Table("funcref", 0, 3, 0)>>, <<Table("funcref", 1, 3, 2)>>, <<Table("funcref", 1, 2, 3)>>,
      <<Table("funcref", 1, 1, 4)>>, <<Table("funcref", 2, 1, 1)>>, <<Table("funcref", 0, 4, 0)>>,
      <<Table("externref", 0, 1, 0)>>, <<Table("other", 0, 1, 0)>>,
      <<Table("funcref", 0, 1, 0), Table("funcref", 0, 1, 0)>>>>

Segment(offset, functions) ==
    [mode |-> 0, op |-> "i", offset |-> offset, end |-> "end", functions |-> functions]

ElementContents ==
    <<<<Segment(1, <<3, 0>>)>>, <<Segment(0, <<0, 2>>), Segment(1, <<3>>)>>,
      <<Segment(0, <<2>>), Segment(2, <<2>>), Segment(0, <<3>>)>>, <<Segment(3, <<>>)>>,
      <<Segment(2, <<0, 3>>)>>, <<Segment(0, <<4>>)>>, <<Segment(0, <<3, 1>>)>>,
      <<[Segment(0, <<3>>) EXCEPT !.mode = 1]>>, <<[Segment(0, <<3>>) EXCEPT !.op = "I"]>>,
      <<[Segment(0, <<3>>) EXCEPT !.op = "global.get"]>>,
      <<[Segment(0, <<3>>) EXCEPT !.op = "vector"]>>, <<[Segment(0, <<3>>) EXCEPT !.op = "end"]>>,
      <<[Segment(0, <<3>>) EXCEPT !.end = "i"]>>, <<[Segment(0, <<3>>) EXCEPT !.end = "vector"]>>>>

TableExports ==
    <<<<Export(A, "table", 0), Export(B, "func", 3), Export(M, "func", 0)>>, <<Export(A, "func", 3)>>,
      <<Export(M, "func", 3), Export(A, "table", 0)>>, <<Export(M, "func", 1)>>,
      <<Export(A, "func", 4)>>, <<Export(A, "table", 1)>>, <<Export(A, "tag", 0)>>,
      <<Export(A, "func", 3), Export(A, "table", 0)>>>>

Tables ==
    LET With(options, element) == Good(options, SlotsFor(
            [type     |-> Each("type", <<Types>>),
             import   |-> Each("import", <<<<ImportFunc(A, 0), BuiltinImport, ImportFunc(B, 3)>>>>),
             function |-> Each("function", <<<<2>>>>),
             table    |-> IF element THEN Each("table", SubSeq(TableContents, 1, 1)) \o <<Absent>>
                                     ELSE Append(Each("table", TableContents), Absent),
             export   |-> IF element THEN Each("export", <<TableExports[1], TableExports[2]>>) \o <<Absent>>
                                     ELSE Each("export", TableExports),
             start    |-> Append(Each("start", IF element THEN <<<<3>>>>
                                               ELSE <<<<0>>, <<1>>, <<3>>, <<4>>>>), Absent),
             element  |-> Append(Each("element", IF element THEN ElementContents
                                                 ELSE SubSeq(ElementContents, 2, 2)), Absent),
             code     |-> Each("code", <<<<Body>>>>)]), <<<<>>>>)
        options == [Plain EXCEPT !.defaults = Symbols, !.allowUnknownImports = TRUE]
    IN  <<With(options, TRUE), With(options, FALSE)>>

(* Memory and data segments. *)
Memory(flag, initial, maximum) == [flag |-> flag, initial |-> initial, maximum |-> maximum]

MemoryContents ==
    <<<<Memory(0, 1, 0)>>, <<Memory(1, 2, 2)>>, <<Memory(1, 2, 1)>>, <<Memory(1, 2, 5)>>,
      <<Memory(0, 5, 0)>>, <<Memory(2, 1, 1)>>, <<Memory(0, 1, 0), Memory(0, 1, 0)>>>>

Data(offset, bytes) == [mode |-> 0, op |-> "i", offset |-> offset, end |-> "end", bytes |-> bytes]

DataContents ==
    <<<<Data(1, <<7, 8, 9, 10, 11>>)>>, <<Data(6, <<1, 2>>), Data(4, <<3, 4, 5>>)>>,
      <<Data(7, <<1, 2>>)>>, <<Data(15, <<9>>), Data(0, <<6, 7, 8, 9>>)>>, <<Data(16, <<>>)>>,
      <<[Data(0, <<1>>) EXCEPT !.mode = 1]>>, <<[Data(0, <<1>>) EXCEPT !.op = "f"]>>,
      <<[Data(0, <<1>>) EXCEPT !.op = "global.get"]>>, <<[Data(0, <<1>>) EXCEPT !.end = "f"]>>>>

Memories ==
    LET With(options) == Good(options, SlotsFor(
            [memory       |-> Append(Each("memory", MemoryContents), Absent),
             export       |-> <<Exact("export", <<Export(A, "mem", 0)>>),
                                Exact("export", <<Export(A, "mem", 1)>>), Absent>>,
             code         |-> <<Exact("code", <<>>), Absent>>,
             data         |-> Append(Each("data", DataContents), Absent)]), <<<<>>>>)
        counted == Good(Plain,
            <<Each("memory", SubSeq(MemoryContents, 2, 2)), Each("data count", <<<<1>>, <<2>>>>),
              Each("data", SubSeq(DataContents, 1, 2))>>, <<<<>>>>)
    IN  <<With([Plain EXCEPT !.room = 15]), With([Plain EXCEPT !.active = FALSE]), counted>>
(* Custom sections and the names of functions. *)
Names(list) == [kind |-> "function", sizeMatches |-> TRUE, names |-> list]

Named(function, name) == [function |-> function, name |-> name]

NameSections ==
    <<Custom(NameSection, <<[kind |-> "module", sizeMatches |-> TRUE, names |-> <<>>],
                            Names(<<Named(0, A), Named(1, Long)>>)>>),
      Custom(NameSection, <<Names(<<Named(2, B)>>)>>), Custom(NameSection, <<>>),
      Custom(NameSection, <<Names(<<Named(0, Broken)>>)>>),
      Custom(NameSection, <<[Names(<<Named(0, A)>>) EXCEPT !.sizeMatches = FALSE]>>)>>

Naming ==
    LET With(options) == Good(options,
            <<Each("type", <<Types>>), Each("function", <<<<0, 2>>>>), <<Custom(A, <<>>), Absent>>,
              Append(NameSections, Absent),
              <<Exact("code", <<Body, Body>>), Absent>> \o SubSeq(NameSections, 1, 1),
              <<Custom(Long, <<>>), Custom(Broken, <<>>), Absent>> \o NameSections,
              <<NameSections[2], Exact("data", <<>>), Absent>>>>, <<<<>>>>)
    IN  <<With([Plain EXCEPT !.stacktraceRecords = 2]), With(Plain)>>

(* Sections in any order, and their sizes. *)
Smallest ==
    <<Exact("type", Types), Exact("import", <<>>), Exact("function", <<>>), Exact("export", <<>>),
      Exact("code", <<>>), Exact("data", <<>>), Exact("placeholder", <<>>), Exact("unknown", <<>>),
      Custom(A, <<>>), Custom(NameSection, <<>>), [Exact("table", <<>>) EXCEPT !.size = "other"],
      [Exact("memory", <<>>) EXCEPT !.size = "zero"],
      [Exact("global", <<>>) EXCEPT !.size = "past the end"],
      [Custom(B, <<>>) EXCEPT !.size = "other"], [Custom(B, <<>>) EXCEPT !.size = "zero"]>>

Orders == Good(Plain, <<Smallest, Smallest, Smallest, Append(Smallest, Absent)>>, <<<<>>>>)

(* Names of bytes at the limits of UTF-8, one or two characters long. *)
ByteStrings ==
    LET limits == {65, 127, 128, 143, 144, 159, 160, 191, 192, 193, 194, 223, 224, 225, 236, 237,
                   238, 239, 240, 241, 243, 244, 245, 247, 248, 252, 254, 255}
    IN  {<<first>> : first \in limits} \union (limits \X limits)
        \union ({65, 194, 224, 225, 236, 237, 238, 239, 240} \X {65, 127, 128, 159, 160, 191, 192}
                    \X {65, 127, 128, 191, 192})
        \union ({65, 194, 224, 237, 239, 240, 241, 243, 244, 245} \X {128, 143, 144, 160, 191}
                    \X {128, 191, 194} \X {65, 127, 128, 191, 192})

Strings ==
    Good(Plain, <<Each("memory", SubSeq(MemoryContents, 1, 1)),
                  [name \in ByteStrings |-> Exact("export", <<Export(name, "mem", 0)>>)]>>, <<<<>>>>)

MCPlans ==
    Headers \o <<Bodies>> \o Linking \o Globals \o Tables \o Memories \o Naming
        \o <<Orders, Strings>>
=============================================================================
