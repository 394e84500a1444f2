--------------------------- MODULE Configuration ----------------------------
(***************************************************************************)
(* internal/config: command line, configuration file and built-in defaults *)
(* become the values of the flags.  An argument is                         *)
(*     [kind : "eq", dashes, name, value, text]   --name=value             *)
(*     [kind : "flag", dashes, name, text]        --name                   *)
(*     [kind : "word", value, text]                                        *)
(* where text is the whole argument, for a word its value, and dashes how  *)
(* many dashes it begins with, 1 or 2.                                     *)
(* A file is [known, doc]: doc the YAML tree, from sections to keys to a   *)
(* scalar or a list (a sequence), known whether the strict decoder accepts *)
(* it.                                                                     *)
(***************************************************************************)
EXTENDS Naturals, Sequences

CONSTANTS CommandLines, \* the sequences of arguments the program may be started with
          Files,        \* path -> file, for the files there are
          FlagDefaults, \* name of flag -> its built-in default; names are <<section, key>>
          ConfigFile,   \* <<"config", "file">>
          SuffixTexts,  \* the texts that end in -config.file
          NoFile        \* ""

ASSUME CommandLinesAssumption ==
  \A line \in CommandLines :
    /\ Len(line) \in Nat /\ DOMAIN line = 1..Len(line)
    /\ \A i \in DOMAIN line :
         /\ line[i].kind \in {"eq", "flag", "word"}
         /\ line[i].kind = "flag" /\ line[i].name = ConfigFile => line[i].text \in SuffixTexts
\* No file has the empty path.
ASSUME FilesAssumption == NoFile \notin DOMAIN Files /\ NoFile \notin SuffixTexts

VARIABLES args,      \* os.Args[1:]
          parsing,   \* "search", "load", "bind", "parse", "done" or "failed"
          argAt,     \* the argument ParseConfigFile looks at
          path,      \* what it returned
          resolver,  \* the values of the file
          defaults,  \* the defaults kingpin has for the flags
          settings   \* the values the flags get

confVars == <<args, parsing, argAt, path, resolver, defaults, settings>>

ConfStart(line) ==
  /\ args = line /\ parsing = "search" /\ argAt = 1 /\ path = NoFile
  /\ resolver = <<>> /\ defaults = FlagDefaults /\ settings = <<>>

ConfInit == \E line \in CommandLines : ConfStart(line)

\* --config.file=value or -config.file=value.
CutPrefix(a) == a.kind = "eq" /\ a.name = ConfigFile

\* Any argument that ends in -config.file, whatever it is for.
HasSuffix(a) == a.text \in SuffixTexts

NamesFile(a) == CutPrefix(a) \/ HasSuffix(a)

\* A bug this could have: all arguments are looked at, so the last one that names a file wins.
MutSearchArgument ==
  /\ parsing = "search"
  /\ \/ /\ argAt \in DOMAIN args
        /\ path' = IF ~NamesFile(args[argAt]) THEN path
                   ELSE IF CutPrefix(args[argAt]) THEN args[argAt].value ELSE args[argAt].text
        /\ argAt' = argAt + 1 /\ UNCHANGED parsing
     \/ /\ argAt \notin DOMAIN args
        /\ parsing' = "load" /\ UNCHANGED <<argAt, path>>
  /\ UNCHANGED <<args, resolver, defaults, settings>>

\* One round of ParseConfigFile, which takes the first argument that names a file.  For an
\* argument that only ends in -config.file the code takes os.Args[i+1]; args is
\* os.Args[1:], so that is the argument itself.
SearchArgument ==
  /\ parsing = "search"
  /\ \/ /\ argAt \in DOMAIN args /\ NamesFile(args[argAt])
        /\ path' = IF CutPrefix(args[argAt]) THEN args[argAt].value ELSE args[argAt].text
        /\ parsing' = "load" /\ UNCHANGED argAt
     \/ /\ argAt \in DOMAIN args /\ ~NamesFile(args[argAt])
        /\ argAt' = argAt + 1 /\ UNCHANGED <<parsing, path>>
     \/ /\ argAt \notin DOMAIN args
        /\ parsing' = "load" /\ UNCHANGED <<argAt, path>>
  /\ UNCHANGED <<args, resolver, defaults, settings>>

\* A list is joined to one value.
Flatten(doc) ==
  [n \in UNION {{<<s, k>> : k \in DOMAIN doc[s]} : s \in DOMAIN doc} |-> doc[n[1]][n[2]]]

Usable(file) == file \in DOMAIN Files /\ Files[file].known

\* NewConfigFileResolver, if there is a file.
NewConfigFileResolver ==
  /\ parsing = "load"
  /\ \/ path = NoFile /\ parsing' = "parse" /\ UNCHANGED resolver
     \/ path # NoFile /\ ~Usable(path) /\ parsing' = "failed" /\ UNCHANGED resolver
     \/ Usable(path) /\ parsing' = "bind" /\ resolver' = Flatten(Files[path].doc)
  /\ UNCHANGED <<args, argAt, path, defaults, settings>>

\* kingpin: an argument is a flag of the program with a value, which for --name is the next
\* argument, or an error; a flag that takes one value cannot be repeated, and one dash
\* begins short flags, of which none has a value.
KingpinParse(line) ==
  LET starts == {i \in DOMAIN line : line[i].kind # "word"}
      taken  == {i + 1 : i \in {k \in starts : line[k].kind = "flag"}}
      bad    == \/ {i \in DOMAIN line : line[i].kind = "word"} # taken
                \/ \E i \in starts : line[i].dashes = 1 \/ line[i].name \notin DOMAIN FlagDefaults
                \/ \E i, k \in starts : i # k /\ line[i].name = line[k].name
  IN IF bad THEN [err |-> TRUE, cli |-> <<>>]
     ELSE [err |-> FALSE,
           cli |-> [n \in {line[i].name : i \in starts} |->
                      LET i == CHOOSE k \in starts : line[k].name = n
                      IN IF line[i].kind = "eq" THEN line[i].value ELSE line[i + 1].value]]

\* The file's values become the defaults of the flags the program has.
SetDefault(flags) ==
  [n \in DOMAIN FlagDefaults |-> IF n \in DOMAIN flags THEN flags[n] ELSE defaults[n]]

\* Bind, which parses the command line before it changes anything.
Bind ==
  /\ parsing = "bind"
  /\ \/ KingpinParse(args).err /\ parsing' = "failed" /\ UNCHANGED defaults
     \/ ~KingpinParse(args).err /\ parsing' = "parse" /\ defaults' = SetDefault(resolver)
  /\ UNCHANGED <<args, argAt, path, resolver, settings>>

\* app.Parse at the end of Parse.
ParseFlags ==
  /\ parsing = "parse"
  /\ LET line == KingpinParse(args)
     IN \/ line.err /\ parsing' = "failed" /\ UNCHANGED settings
        \/ /\ ~line.err /\ parsing' = "done"
           /\ settings' = [n \in DOMAIN FlagDefaults |->
                             IF n \in DOMAIN line.cli THEN line.cli[n] ELSE defaults[n]]
  /\ UNCHANGED <<args, argAt, path, resolver, defaults>>

ConfNext == SearchArgument \/ NewConfigFileResolver \/ Bind \/ ParseFlags

ConfSpec == ConfInit /\ [][ConfNext]_confVars

-----------------------------------------------------------------------------
\* The value kingpin finds for --config.file.
AskedFor(line) == IF ConfigFile \in DOMAIN line.cli THEN line.cli[ConfigFile] ELSE NoFile

\* The arguments taken for the name of a file although they only end like the flag: they
\* stand before any --config.file=value.
Mistaken ==
  {i \in DOMAIN args : /\ HasSuffix(args[i]) /\ ~CutPrefix(args[i])
                       /\ \A k \in DOMAIN args : k < i => ~NamesFile(args[k])}

\* The file a start reads.
FileRead ==
  IF Mistaken = {} THEN AskedFor(KingpinParse(args)) ELSE args[CHOOSE i \in Mistaken : TRUE].text

\* The two parsers of the command line, ParseConfigFile and kingpin, agree on the file: a
\* start that succeeds has read the one that kingpin finds for --config.file, or none, and
\* a flag has the value of the command line, or else of that file, or else its default; a
\* start fails only when kingpin does or the file cannot be used.  The one exception is an
\* argument before it that ends in -config.file without a value, --config.file itself or
\* anything else: then the text of that argument is the path.
SettingsExact ==
  LET line == KingpinParse(args)
      file == IF FileRead = NoFile THEN <<>> ELSE Flatten(Files[FileRead].doc)
      unusable == FileRead # NoFile /\ ~Usable(FileRead)
  IN /\ parsing = "failed" => line.err \/ unusable
     /\ parsing = "done" => /\ ~line.err /\ ~unusable
                            /\ \A n \in DOMAIN FlagDefaults :
                                 settings[n] = CASE n \in DOMAIN line.cli -> line.cli[n]
                                                 [] n \in DOMAIN file \ DOMAIN line.cli -> file[n]
                                                 [] OTHER -> FlagDefaults[n]
=============================================================================
