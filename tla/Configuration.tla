--------------------------- MODULE Configuration ---------------------------
(***************************************************************************)
(* The configuration: TelescopeConfiguration.cpp, with the file it is      *)
(* saved to and read from (telescope_hardware.cpp).  `config` runs in the  *)
(* readers of the servers and changes an item at once; `save` writes the   *)
(* items one by one, in a worker, so items change and the power may fail   *)
(* meanwhile.  At the next boot the saved file, whole or not, takes the    *)
(* place of the original one.                                              *)
(*                                                                         *)
(* A value is a number, in units of one tenth of the last digit that       *)
(* "%.8f" prints; a Boolean is 0 or 1.  A text, what a file or a line      *)
(* holds, is a number with its spelling: "int", "real" with a point,       *)
(* "bool" (true, false) or "word"; two words are told by their number.     *)
(* Lines without "=" or without a value are passed over when the file is   *)
(* read, as if they were not there, and comments too.                      *)
(***************************************************************************)
EXTENDS Integers, FiniteSets

CONSTANTS
  Table,         \* default_config: name -> type, value, min, max
  ExtraNames,    \* names of items that the table does not have
  Original,      \* the lines of telescope.cfg: name -> text
  Texts,         \* values that may be typed
  One,           \* the number 1
  MaxTyped,      \* bound on the config commands
  MaxBoots       \* bound on boots

Types == {"INT", "DOUBLE", "BOOL", "STRING"}

\* What a line holds, or is typed.
Line == [spelt : {"int", "real", "word"}, number : Int]
        \cup [spelt : {"bool"}, number : {0, 1}]

ASSUME ConfigAssumption ==
  /\ Texts \subseteq Line
  /\ \A n \in DOMAIN Original : Original[n] \in Line
  /\ DOMAIN Original \subseteq DOMAIN Table \cup ExtraNames
  /\ \A n \in DOMAIN Table : /\ Table[n].type \in Types /\ Table[n].value \in Int
                             /\ Table[n].type = "BOOL" => Table[n].value \in {0, 1}
  /\ One \in Nat \ {0} /\ MaxTyped \in Nat /\ MaxBoots \in Nat
  /\ Table # <<>>

VARIABLES
  items,     \* name -> type, value, extra
  file,      \* the saved file: name -> text
  saved,     \* there is one
  config,    \* "booting", "running", "saving" or "error"
  todo,      \* names still to be read or to be written
  written,   \* the items as they were when they were written
  whole,     \* the saved file was closed
  typed, boots

configVars == <<items, file, saved, config, todo, written, whole, typed, boots>>

Defaults ==
  [n \in DOMAIN Table |->
     [type |-> Table[n].type, value |-> Table[n].value, spelt |-> "none",
      extra |-> FALSE]]

NoLines == [n \in {} |-> 0]

With(f, n, x) == [m \in DOMAIN f \cup {n} |-> IF m = n THEN x ELSE f[m]]

-----------------------------------------------------------------------------
(* Conversions.                                                            *)

\* strtol and strtod: 0 for what is no number.  strtol ends at the point.
ToInt(text) ==
  CASE text.spelt = "int"  -> text.number
    [] text.spelt = "real" -> (text.number \div One) * One
    [] OTHER -> 0

\* Fault: read with strtol.
ToDoubleWhole(text) == ToInt(text)

ToDouble(text) ==
  IF text.spelt \in {"int", "real"} THEN text.number ELSE 0

IsTrue(text) == text.spelt = "bool" /\ text.number = 1

Parsed(type, text) ==
  CASE type = "INT"    -> ToInt(text)
    [] type = "DOUBLE" -> ToDouble(text)
    [] type = "BOOL"   -> IF IsTrue(text) THEN 1 ELSE 0
    [] type = "STRING" -> text.number

\* Only a string keeps how it was spelt.
Spelling(type, text) == IF type = "STRING" THEN text.spelt ELSE "none"

\* The type of an item that the table does not have.
Inferred(text) ==
  CASE text.spelt = "bool" -> "BOOL"
    [] text.spelt = "int"  -> "INT"
    [] text.spelt = "real" -> "DOUBLE"
    [] text.spelt = "word" -> "STRING"

\* "%.8f" rounds to the nearest multiple of 10.
Rounded(v) == ((v + 5) \div 10) * 10

\* getStringFromConfig.  A string is spelt as it was typed: a number too.
Printed(item) ==
  CASE item.type = "INT"    -> [spelt |-> "int", number |-> item.value]
    [] item.type = "DOUBLE" -> [spelt |-> "real", number |-> Rounded(item.value)]
    [] item.type = "BOOL"   -> [spelt |-> "bool", number |-> item.value]
    [] item.type = "STRING" -> [spelt |-> item.spelt, number |-> item.value]

-----------------------------------------------------------------------------
(* setConfig, readFromFile, writeToFile, eqmount_config.                   *)

OutOfLimits(n, value) ==
  /\ n \in DOMAIN Table /\ Table[n].type \in {"INT", "DOUBLE"}
  /\ value > Table[n].max \/ value < Table[n].min

SetConfig(n, text) ==
  LET known == n \in DOMAIN items
      type == IF known THEN items[n].type ELSE Inferred(text)
      value == Parsed(type, text)
  IN  /\ items' = With(items, n,
           [type |-> type, value |-> value, spelt |-> Spelling(type, text),
            extra |-> known => items[n].extra])
      /\ config' = IF OutOfLimits(n, value) THEN "error" ELSE "booting"

\* The saved file is read if there is one, else the original.
FileRead == IF saved THEN file ELSE Original

Boot ==
  /\ boots < MaxBoots
  /\ boots' = boots + 1
  /\ items' = Defaults
  /\ todo' = DOMAIN FileRead
  /\ config' = "booting"
  /\ UNCHANGED <<file, saved, written, whole, typed>>

ReadLine ==
  /\ config = "booting"
  /\ \E n \in todo : SetConfig(n, FileRead[n]) /\ todo' = todo \ {n}
  /\ UNCHANGED <<file, saved, written, whole, typed, boots>>

Booted ==
  /\ config = "booting" /\ todo = {}
  /\ config' = "running"
  /\ UNCHANGED <<items, file, saved, todo, written, whole, typed, boots>>

\* `config name text`: a value that is typed is not held against the limits.
Fits(type, text) ==
  CASE type \in {"INT", "DOUBLE"} -> text.spelt \in {"int", "real"}
    [] type = "BOOL"   -> text.spelt = "bool"
    [] type = "STRING" -> TRUE

ConfigCommand ==
  /\ config \in {"running", "saving"} /\ typed < MaxTyped
  /\ typed' = typed + 1
  /\ \E n \in DOMAIN items, text \in Texts :
       IF Fits(items[n].type, text)
       THEN items' = [items EXCEPT
                        ![n].value = Parsed(items[n].type, text),
                        ![n].spelt = Spelling(items[n].type, text)]
       ELSE UNCHANGED items
  /\ UNCHANGED <<file, saved, config, todo, written, whole, boots>>

\* `save`: fopen empties the file.
Save ==
  /\ config = "running"
  /\ config' = "saving"
  /\ file' = NoLines /\ saved' = TRUE /\ whole' = FALSE
  /\ todo' = DOMAIN items /\ written' = NoLines
  /\ UNCHANGED <<items, typed, boots>>

WriteLine ==
  /\ config = "saving"
  /\ \E n \in todo :
       /\ file' = With(file, n, Printed(items[n]))
       /\ written' = With(written, n, items[n])
       /\ todo' = todo \ {n}
  /\ UNCHANGED <<items, saved, config, whole, typed, boots>>

Saved ==
  /\ config = "saving" /\ todo = {}
  /\ config' = "running" /\ whole' = TRUE
  /\ UNCHANGED <<items, file, saved, todo, written, typed, boots>>

\* `save delete`.
SaveDelete ==
  /\ config = "running" /\ saved
  /\ saved' = FALSE /\ file' = NoLines /\ written' = NoLines /\ whole' = FALSE
  /\ UNCHANGED <<items, config, todo, typed, boots>>

ConfigInit ==
  /\ items = Defaults /\ file = NoLines /\ saved = FALSE /\ config = "booting"
  /\ todo = DOMAIN Original /\ written = NoLines /\ whole = FALSE
  /\ typed = 0 /\ boots = 0

\* A boot is a reset or a failure of power, at any time.
ConfigNext ==
  \/ Boot \/ ReadLine \/ Booted \/ ConfigCommand \/ Save \/ WriteLine \/ Saved
  \/ SaveDelete

ConfigSpec == ConfigInit /\ [][ConfigNext]_configVars

-----------------------------------------------------------------------------
ConfigTypeOK ==
  /\ DOMAIN Table \subseteq DOMAIN items
  /\ DOMAIN items \subseteq DOMAIN Table \cup ExtraNames
  /\ \A n \in DOMAIN items :
       /\ items[n].type \in Types
       /\ items[n].extra = (n \notin DOMAIN Table)
  /\ config \in {"booting", "running", "saving", "error"}

\* What a boot has read when it comes to an item of a file that was closed is
\* what was saved, to eight decimals, whatever was typed while it was written
\* and however often the power failed; an item that the table does not have
\* takes its type from its spelling again, and keeps its value all the same.
SavedIsRead ==
  (config = "booting" /\ saved /\ whole) =>
    \A n \in DOMAIN written \ todo :
      /\ n \in DOMAIN items
      /\ items[n].value = IF written[n].type = "DOUBLE"
                          THEN Rounded(written[n].value) ELSE written[n].value
=============================================================================
