---------------------------- MODULE ConfigEditors ----------------------------
(* The editors of a server's main configuration file                            *)
(* (web/src/components/properties-editor.tsx, proxy-config-editor.tsx, with     *)
(* lib/server-properties.ts and lib/proxy-config.ts). The same content is held  *)
(* as text and as a form, one of which is edited; the file is written without   *)
(* a revision, so the last writer wins.                                         *)
EXTENDS Integers, Sequences, FiniteSets
LOCAL INSTANCE SequencesExt
LOCAL INSTANCE FiniteSetsExt

CONSTANTS Schema,      \* the properties the form knows
          Motd,        \* the one of them that its designer edits: a text of lines
          Words,       \* what a line may hold
          Hashed,      \* the words with a "#", as the colours that the designer writes
          Cut,         \* a word cut off at its "#", with the quote that is left open
          Typed,       \* what the user may write in a line: with a break, it is several
          DefaultMotd,
          Custom,      \* other keys
          BadKey,      \* a key with a blank or a "="
          Values,
          Servers,     \* names of backends
          Lobby,       \* the backend of BungeeCord's defaults, one of them
          Own, Standard, \* what the form does not know: as found, or as the form writes it
          Texts,       \* Texts[kind]: what the user may type, or find in the file
          Template,    \* Template[kind]: the content proposed when there is no file
          Preset,      \* a setting's value when the text has none
          Absent, None,
          MaxInputs,   \* bound: clicks and keystrokes
          MaxFails,    \* bound: requests that fail
          MaxOthers    \* bound: writes by others

Kinds == {"properties", "velocity", "bungee"}
Keys == Schema \cup Custom

ASSUME ConfigAssumption ==
    /\ Lobby \in Servers /\ Preset \in Values /\ Schema \cap Custom = {}
    /\ BadKey \notin Keys /\ None \notin Values
    /\ Motd \in Schema /\ Hashed \subseteq Words /\ Cut \in Words \ Hashed /\ "" \in Words
    /\ \A k \in Kinds : Template[k] \in Texts[k] /\ Absent \notin Texts[k]

VARIABLES kind, disk, mode,
          raw, initial, \* the text, and the one that was loaded or saved
          draft,        \* the form: lines of properties, or a proxy's settings
          loaded, busy, saved,
          view,         \* the category, or the tab, of the form
          designer,     \* the two lines shown by the designer, and the one it formats
          form,         \* the backend being added: its name, or None
          request,      \* the load or the save that was sent
          meant,        \* the text the edits started from, and the values set since
          unseen,       \* the file changed since the last answer told of it
          budget

vars == <<kind, disk, mode, raw, initial, draft, loaded, busy, saved, view, designer, form,
          request, meant, unseen, budget>>
content == <<mode, raw, initial, draft>>

-----------------------------------------------------------------------------
(* server.properties: a line is a property, or a comment or blank (key None).   *)

Blank == <<>>
Line(k, v) == [key |-> k, value |-> v, spaced |-> FALSE]
parseProperties(text) == text
\* A property is written again as key=value, anything else as it was.
serializeProperties(lines) ==
    [i \in DOMAIN lines |-> IF lines[i].key = None THEN lines[i]
                            ELSE [lines[i] EXCEPT !.spaced = FALSE]]
HasKey(lines, k) == \E i \in DOMAIN lines : lines[i].key = k
\* Variant: the value goes to the first line that has the key.
updateFirst(lines, k, v) ==
    IF ~HasKey(lines, k) THEN Append(lines, Line(k, v))
    ELSE LET i == CHOOSE i \in DOMAIN lines :
                    lines[i].key = k /\ \A j \in 1..(i - 1) : lines[j].key # k
         IN  [lines EXCEPT ![i].value = v]
updatePropertyInLines(lines, k, v) ==
    IF ~HasKey(lines, k) THEN Append(lines, Line(k, v))
    ELSE [i \in DOMAIN lines |->
            IF lines[i].key = k THEN [lines[i] EXCEPT !.value = v] ELSE lines[i]]
deletePropertyFromLines(lines, k) == SelectSeq(lines, LAMBDA l : l.key # k)
\* The last line with the key counts.
getPropertiesMap(lines) ==
    [k \in {lines[i].key : i \in DOMAIN lines} \ {None} |->
        LET at == {i \in DOMAIN lines : lines[i].key = k}
        IN  lines[CHOOSE i \in at : \A j \in at : j <= i].value]
getCustomProperties(lines) == {k \in Custom \cup {BadKey} : HasKey(lines, k)}

-----------------------------------------------------------------------------
(* A message of the day: the designer takes it apart, and writes it in two lines. *)

decodeMotdFromProperties(motd) == <<<<motd[1]>>, IF Len(motd) > 1 THEN <<motd[2]>> ELSE <<"">>>>
encodeMotdForProperties(lines) == IF lines[2] = <<"">> THEN lines[1] ELSE lines[1] \o lines[2]

-----------------------------------------------------------------------------
(* A proxy's file: its backends, the fallbacks among them, one setting for the  *)
(* rest of the form, and what the form does not know and replaces.              *)

Settings(text) ==
    IF text = Blank THEN [servers |-> <<>>, try |-> <<>>, setting |-> Preset, motd |-> DefaultMotd]
    ELSE [servers |-> text.servers, try |-> text.try, setting |-> text.setting, motd |-> text.motd]
\* A "#" ends the line also inside quotes, except right after the first.
Uncommented(motd) ==
    LET at == {i \in DOMAIN motd : motd[i] \in Hashed}
    IN  IF at = {} THEN motd ELSE Append(SubSeq(motd, 1, Min(at) - 1), Cut)
parseVelocityToml(text) == [Settings(text) EXCEPT !.motd = Uncommented(@)]
parseBungeeYaml(text) == Settings(text)
Written(cfg, servers, try) ==
    [servers |-> servers, try |-> try, setting |-> cfg.setting, rest |-> Standard,
     motd |-> IF cfg.motd = <<"">> THEN DefaultMotd ELSE cfg.motd]
serializeVelocityToml(cfg) == Written(cfg, cfg.servers, cfg.try)
serializeBungeeYaml(cfg) ==
    Written(cfg, IF cfg.servers = <<>> THEN <<Lobby>> ELSE cfg.servers,
            IF cfg.try = <<>> THEN <<Lobby>> ELSE cfg.try)

Proxy == kind # "properties"
Parse(text) == CASE kind = "properties" -> parseProperties(text)
                 [] kind = "velocity"   -> parseVelocityToml(text)
                 [] OTHER               -> parseBungeeYaml(text)
Serialize(d) == CASE kind = "properties" -> serializeProperties(d)
                  [] kind = "velocity"   -> serializeVelocityToml(d)
                  [] OTHER               -> serializeBungeeYaml(d)

ToSave == IF mode = "raw" THEN raw ELSE Serialize(draft)
IsDirty == ToSave # initial
Read(text) == IF text = Absent \/ (Proxy /\ text = Blank) THEN Template[kind] ELSE text

-----------------------------------------------------------------------------
(* The editor.                                                                 *)

Load == request' = [op |-> "load", content |-> None]
Init ==
    /\ kind \in Kinds /\ disk \in Texts[kind] \cup {Absent, Blank}
    /\ mode = "interactive" /\ raw = Blank /\ initial = Blank
    /\ draft = IF kind = "properties" THEN <<>> ELSE Settings(Template[kind])
    /\ loaded = FALSE /\ busy = TRUE /\ saved = FALSE /\ view = "first" /\ form = None
    /\ designer = [lines |-> decodeMotdFromProperties(DefaultMotd), active |-> 1]
    /\ request = [op |-> "load", content |-> None]
    /\ meant = [base |-> Blank, set |-> <<>>] /\ unseen = FALSE
    /\ budget = [inputs |-> MaxInputs, fails |-> MaxFails, others |-> MaxOthers]

Press == /\ budget.inputs > 0 /\ budget' = [budget EXCEPT !.inputs = @ - 1]
         /\ UNCHANGED <<kind, disk, unseen>>
Click == Press /\ UNCHANGED <<request, loaded, busy>>
\* An edit; nothing keeps it from being made while an answer is still to come.
Edits == Press /\ saved' = FALSE /\ UNCHANGED <<request, loaded, busy>>
NetFails == budget.fails > 0 /\ budget' = [budget EXCEPT !.fails = @ - 1]

Interactive == mode = "interactive" /\ (Proxy \/ loaded)

\* handleModeChange carries the edits over to the other representation.
ModeChange ==
    /\ Click /\ mode' = (IF mode = "raw" THEN "interactive" ELSE "raw")
    /\ raw' = IF mode = "raw" THEN raw ELSE Serialize(draft)
    /\ draft' = IF mode = "raw" THEN Parse(raw) ELSE draft
    /\ UNCHANGED <<initial, saved, view, form, meant>>

\* The text, of a proxy also before it was read.
RawEdit ==
    /\ mode = "raw" /\ Edits
    /\ raw' \in Texts[kind] \cup {Blank} /\ meant' = [base |-> raw', set |-> <<>>]
    /\ UNCHANGED <<mode, initial, draft, view, form>>
PropertiesText == ~Proxy /\ loaded /\ RawEdit
ProxyText == Proxy /\ RawEdit

Saves == /\ Press /\ busy' = TRUE /\ saved' = FALSE
         /\ request' = [op |-> "save", content |-> ToSave]
         /\ UNCHANGED <<content, loaded, view, form, meant>>
\* Variant: what was not read can be saved.
SaveBlindly == ~busy /\ (Proxy => IsDirty) /\ Saves
Save == ~busy /\ (IF Proxy THEN IsDirty ELSE loaded) /\ Saves
Reload == /\ ~busy /\ Press /\ busy' = TRUE /\ Load
          /\ UNCHANGED <<content, loaded, saved, view, form, meant>>

\* The buttons: server.properties can be read again and is saved whether it was
\* changed or not, a proxy's file is neither.
PropertiesHeader == ~Proxy /\ (ModeChange \/ Reload)
PropertiesFooter == ~Proxy /\ Save
ProxyHeader == Proxy /\ (ModeChange \/ Save)
Buttons == PropertiesHeader \/ PropertiesFooter \/ ProxyHeader

\* The category pills and the filter; the tabs.
Views == IF Proxy THEN {"first", "general", "security"} ELSE {"first", "motd", "schema", "custom"}
Show == /\ Interactive /\ Click /\ view' \in Views \ {view}
        /\ UNCHANGED <<content, saved, form, meant>>

-----------------------------------------------------------------------------
(* The form of server.properties.                                              *)

FilteredSchemas == IF view \in {"custom", "motd"} THEN {} ELSE Schema \ {Motd}
FilteredCustom == IF view \in {"schema", "motd"} THEN {} ELSE getCustomProperties(draft)
ValuesOf(k) == IF k = Motd THEN Typed ELSE Values

Takes(lines, k, v) ==
    /\ Edits /\ draft' = lines /\ raw' = serializeProperties(lines)
    /\ meant' = [meant EXCEPT !.set = [x \in DOMAIN @ \cup {k} |-> IF x = k THEN v ELSE @[x]]]
    /\ UNCHANGED <<mode, initial, view, form>>
PropertyChange(k, v) == Takes(updatePropertyInLines(draft, k, v), k, v)
DeleteProperty(k) == Takes(deletePropertyFromLines(draft, k), k, None)
AddCustom == \E k \in Keys : \E v \in ValuesOf(k) : PropertyChange(k, v)

SchemaGrid == \E k \in FilteredSchemas, v \in Values : PropertyChange(k, v)
CustomList == \/ \E k \in FilteredCustom :
                    DeleteProperty(k) \/ \E v \in Values : PropertyChange(k, v)
              \/ view \in {"first", "custom"} /\ AddCustom

PropertiesForm == ~Proxy /\ Interactive /\ (SchemaGrid \/ CustomList)

-----------------------------------------------------------------------------
(* The form of a proxy.                                                        *)

Configures(cfg) == Edits /\ draft' = cfg /\ UNCHANGED <<mode, raw, initial, view, meant>>

PanelServer == /\ form # None /\ Click /\ form' \in Servers \ {form}
               /\ UNCHANGED <<content, saved, view, meant>>
AddForm == /\ Click /\ form' = (IF form = None THEN "" ELSE None)
           /\ UNCHANGED <<content, saved, view, meant>>
\* A name that is registered is refused; the first backend becomes the fallback.
AddServer ==
    /\ form \in Servers /\ form \notin ToSet(draft.servers) /\ form' = None
    /\ Configures([draft EXCEPT !.servers = Append(@, form),
                                !.try = IF @ = <<>> THEN <<form>> ELSE @])
\* Variant: a backend that goes stays among the fallbacks.
DeleteServerOnly ==
    \E n \in ToSet(draft.servers) :
        /\ Configures([draft EXCEPT !.servers = SelectSeq(@, LAMBDA s : s # n)])
        /\ UNCHANGED form
DeleteServer ==
    \E n \in ToSet(draft.servers) :
        /\ Configures([draft EXCEPT !.servers = SelectSeq(@, LAMBDA s : s # n),
                                    !.try = SelectSeq(@, LAMBDA s : s # n)])
        /\ UNCHANGED form
ToggleTryServer ==
    \E n \in ToSet(draft.servers) :
        /\ Configures([draft EXCEPT !.try = IF n \in ToSet(@) THEN SelectSeq(@, LAMBDA s : s # n)
                                            ELSE Append(@, n)])
        /\ UNCHANGED form
Sets == \E v \in Values : Configures([draft EXCEPT !.setting = v]) /\ UNCHANGED form

ServerCards == DeleteServer \/ ToggleTryServer
NetworkTab == view = "general" /\ Sets
SecurityTab == view = "security" /\ Sets
ProxyForm ==
    /\ Proxy /\ Interactive
    /\ \/ view = "first" /\ (AddForm \/ PanelServer \/ AddServer \/ ServerCards)
       \/ NetworkTab \/ SecurityTab

-----------------------------------------------------------------------------
(* The designer of the message of the day, in either form.                     *)

MotdSection == Interactive /\ view \in (IF Proxy THEN {"general"} ELSE {"first", "motd"})
MotdOf(d) == IF Proxy THEN d.motd
             ELSE IF HasKey(d, Motd) THEN getPropertiesMap(d)[Motd] ELSE DefaultMotd
NotifyChange(lines) ==
    LET motd == encodeMotdForProperties(lines)
    IN  /\ IF Proxy THEN Configures([draft EXCEPT !.motd = motd]) /\ UNCHANGED form
           ELSE PropertyChange(Motd, motd)
        /\ designer' = [designer EXCEPT !.lines = IF motd = MotdOf(draft) THEN lines
                                                 ELSE decodeMotdFromProperties(motd)]
TypeLine(i, text) == MotdSection /\ NotifyChange([designer.lines EXCEPT ![i] = text])
\* The toolbar writes in the line it formats: a code or a symbol at the cursor, which
\* keeps what was there; a text in the colours of a gradient; blanks that centre it;
\* or what is left without the codes.
ActiveText == designer.lines[designer.active]
insertTextAtActive(texts) == \E text \in texts : TypeLine(designer.active, text)
Longer(text) == text # <<"">> /\ Len(text) >= Len(ActiveText)
applyCode == insertTextAtActive({text \in Typed : Longer(text)})
handleInsertGradient ==
    insertTextAtActive({text \in Typed : Longer(text) /\ ToSet(text) \cap Hashed # {}})
handleCenter == insertTextAtActive({text \in Typed : Len(text) = Len(ActiveText)})
handleStrip == insertTextAtActive({text \in Typed : ToSet(text) \cap Hashed = {}
                                                    /\ Len(text) = Len(ActiveText)})
Toolbar == applyCode \/ handleInsertGradient \/ handleCenter \/ handleStrip
LineInputs == \E i \in 1..2, text \in Typed : TypeLine(i, text)
ActiveLine == /\ MotdSection /\ Click /\ designer' = [designer EXCEPT !.active = 3 - @]
              /\ UNCHANGED <<content, saved, view, form, meant>>
\* Its lines follow the form: when it is shown, and when the text there changes.
\* Variant: it is filled when it is shown.
MountsOnly == IF MotdSection' /\ ~MotdSection
              THEN designer' = [lines |-> decodeMotdFromProperties(MotdOf(draft)'), active |-> 1]
              ELSE UNCHANGED designer
Follows ==
    IF ~MotdSection' \/ (MotdSection /\ MotdOf(draft)' = MotdOf(draft)) THEN UNCHANGED designer
    ELSE designer' = [lines |-> decodeMotdFromProperties(MotdOf(draft)'),
                      active |-> IF MotdSection THEN designer.active ELSE 1]

-----------------------------------------------------------------------------
(* Answers, and the writes of others.                                          *)

\* What a load and a save do with the content that comes back.
Adopt(text) ==
    /\ raw' = text /\ initial' = text /\ draft' = Parse(text)
    /\ meant' = [base |-> text, set |-> <<>>]
Answer(op) == /\ request.op = op /\ request' = [op |-> "none", content |-> None] /\ busy' = FALSE
              /\ UNCHANGED <<kind, mode, view, form>>

Loaded == /\ Answer("load") /\ Adopt(Read(disk)) /\ loaded' = TRUE /\ unseen' = FALSE
          /\ UNCHANGED <<disk, saved, budget>>
Stored == request.content # Blank /\ disk' = request.content
\* Variant: the content that was saved is not taken for the one to compare with.
SavedOnly == /\ Answer("save") /\ Stored /\ saved' = TRUE /\ unseen' = FALSE
             /\ UNCHANGED <<raw, initial, draft, loaded, meant, budget>>
Saved == /\ Answer("save") /\ Stored /\ Adopt(request.content) /\ saved' = TRUE /\ unseen' = FALSE
         /\ UNCHANGED <<loaded, budget>>
Unanswered == UNCHANGED <<content, loaded, saved, meant>>
\* The panel refuses a blank file.
Refused == /\ Answer("save") /\ request.content = Blank /\ Unanswered
           /\ UNCHANGED <<disk, unseen, budget>>
LoadFails == Answer("load") /\ NetFails /\ Unanswered /\ UNCHANGED <<disk, unseen>>
\* It failed, or only its answer was lost.
SaveFails == /\ Answer("save") /\ NetFails /\ Unanswered
             /\ \/ UNCHANGED <<disk, unseen>>
                \/ Stored /\ unseen' = TRUE

OtherWrites ==
    /\ budget.others > 0 /\ budget' = [budget EXCEPT !.others = @ - 1]
    /\ disk' \in (Texts[kind] \cup {Absent, Blank}) \ {disk} /\ unseen' = TRUE
    /\ UNCHANGED <<kind, content, loaded, busy, saved, view, form, request, meant>>

Answers == Loaded \/ Saved \/ Refused \/ LoadFails \/ SaveFails
Next == \/ /\ \/ Buttons \/ PropertiesText \/ ProxyText \/ Show \/ PropertiesForm \/ ProxyForm
              \/ Answers \/ OtherWrites
           /\ Follows
        \/ LineInputs \/ Toolbar \/ ActiveLine
Spec == Init /\ [][Next]_vars
=============================================================================
