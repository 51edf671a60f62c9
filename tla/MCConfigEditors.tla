-------------------------- MODULE MCConfigEditors --------------------------
(* ConfigEditors on files of three lines or two backends, and its properties.  *)
EXTENDS ConfigEditors
LOCAL INSTANCE SequencesExt

On == <<"on">>
Off == <<"off">>
MCValues == {On, Off}
Comment == [key |-> None, value |-> <<"note">>, spaced |-> TRUE]
Spaced(k, v) == [Line(k, v) EXCEPT !.spaced = TRUE]
Proxied(servers, try, motd, rest) ==
    [servers |-> servers, try |-> try, setting |-> On, motd |-> motd, rest |-> rest]
ProxyTexts == {Proxied(<<"lobby">>, <<"lobby">>, <<"plain">>, Standard),
               Proxied(<<"games">>, <<"games">>, <<"plain", "hex">>, Own),
               Proxied(<<>>, <<>>, <<"hex">>, Own)}
MCTexts == [k \in Kinds |->
    IF k = "properties" THEN
        {<<Comment, Line("pvp", On)>>,
         <<Spaced("pvp", On), Comment, Line("pvp", Off), Spaced("mod", On),
           Line("motd", <<"plain", "", "hex">>)>>}
    ELSE ProxyTexts]
MCTemplate == [k \in Kinds |-> IF k = "properties" THEN <<Comment, Line("pvp", On)>>
                               ELSE Proxied(<<>>, <<>>, <<"hex">>, Own)]
MCTyped == {<<"">>, <<"plain">>, <<"hex">>, <<"plain", "hex">>}
MCDefaultMotd == <<"plain">>

\* What Save would write is what was meant, in the two editors:
\* - of server.properties it is what was loaded, or typed as text, with exactly
\*   the values set since: comments, order, keys of mods and every other line stay, in
\*   whatever order the two representations were edited and switched between
\*   (handleModeChange, updatePropertyInLines, "preserving comments and blank lines".)
Rest(text) == SelectSeq(text, LAMBDA l : l.key \notin DOMAIN meant.set)
LinesKept ==
    loaded /\ ~Proxy =>
        /\ Rest(serializeProperties(ToSave)) = Rest(serializeProperties(meant.base))
        /\ \A k \in DOMAIN meant.set :
             IF meant.set[k] = None THEN ~HasKey(ToSave, k)
             ELSE HasKey(ToSave, k) /\ getPropertiesMap(ToSave)[k] = meant.set[k]
\* - of a proxy a fallback is a backend, and no backend is there twice, whatever is
\*   added, removed and toggled in the form, while an answer is on its way and across
\*   the changes of representation. The "lobby" that BungeeCord's file names when no
\*   fallback is left need not be one (handleAddServer, handleDeleteServer,
\*   toggleTryServer and the serializers, for texts that satisfy it).
Distinct(s) == Cardinality(ToSet(s)) = Len(s)
FallbacksKnown ==
    Proxy => /\ ToSet(draft.try) \ (IF kind = "bungee" THEN {Lobby} ELSE {})
                    \subseteq ToSet(draft.servers)
             /\ Distinct(draft.servers) /\ Distinct(draft.try)
SavesWhatWasMeant == LinesKept /\ FallbacksKnown

\* Writing in one line of the message of the day leaves the other line of the form
\* as it was, also when an answer, the text or another control replaced the message
\* meanwhile. A break that is typed makes lines of its own. (MotdDesigner, which
\* keeps copies of both lines.)
OtherLineKept ==
    [][\A i \in 1..2, text \in Typed :
         Len(text) = 1 /\ Len(designer.lines[1]) = 1 /\ TypeLine(i, text) =>
            decodeMotdFromProperties(MotdOf(draft)')[3 - i] =
                decodeMotdFromProperties(MotdOf(draft))[3 - i]]_vars

\* The content that tells whether something is unsaved is that of the file, and a
\* save replaces a file that was read: unless it changed after the last answer, by
\* another's write or a save whose answer was lost. A proxy's editor, which offers
\* its template when reading failed, is held to it once it has read.
\* (load, save, isDirty and the disabled Save.)
KnowsTheFile ==
    ~unseen /\ (loaded \/ (request.op = "save" /\ ~Proxy)) => initial = Read(disk)
=============================================================================
