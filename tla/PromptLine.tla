----------------------------- MODULE PromptLine -----------------------------
(***************************************************************************)
(* The command prompt of ClientUI: the line being typed, the ring of the    *)
(* commands typed before (command_history.go) and what Enter makes of the   *)
(* line.  The user edits a line token by token; erasing a token stands for  *)
(* as many presses of backspace as it has letters.                          *)
(*                                                                          *)
(* Whether decisions are allowed is what TurnPrompt is about; here the      *)
(* client's turns switch it on and off.                                     *)
(***************************************************************************)
EXTENDS ReplCommand

CONSTANTS Token,      \* what the user can type
          MaxTokens,  \* bound on the length of a line
          Capacity    \* commands the ring holds

ASSUME CapacityAssumption == Capacity \in Nat \ {0}
ASSUME MaxTokensAssumption == MaxTokens \in Nat

VARIABLES line,       \* commandStringBeingTyped
          buffer,     \* HistoryRing, with Go's indices
          head,
          size,
          pos,        \* HistoryPos: the entry shown, counted from 1, or 0
          promptState

vars == <<line, buffer, head, size, pos, promptState>>
ring == <<buffer, head, size, pos>>

EmptyLine == <<>>
Line == Seq(Token)
Index == 0..Capacity - 1

Init == /\ line = EmptyLine
        /\ buffer = [i \in Index |-> EmptyLine]
        /\ head = 0
        /\ size = 0
        /\ pos = 0
        /\ promptState = "OnlyAllowInspect"

-----------------------------------------------------------------------------
(* The ring *)

\* Mutant: a full ring takes the item at its end and forgets to move its head.
PushAtHead(item) ==
    IF size = Capacity
    THEN buffer' = [buffer EXCEPT ![head] = item] /\ UNCHANGED <<head, size>>
    ELSE /\ buffer' = [buffer EXCEPT ![(head + size) % Capacity] = item]
         /\ size' = size + 1
         /\ UNCHANGED head

\* HistoryRing.Push: a full ring overwrites its oldest item.
Push(item) ==
    IF size = Capacity
    THEN /\ buffer' = [buffer EXCEPT ![head] = item]
         /\ head' = (head + 1) % Capacity
         /\ UNCHANGED size
    ELSE /\ buffer' = [buffer EXCEPT ![(head + size) % Capacity] = item]
         /\ size' = size + 1
         /\ UNCHANGED head

CurrentItemPos == pos - 1

\* clampInt, with its upper bound applied first.
clampInt(n, lo, hi) ==
    LET m == IF n >= hi THEN hi ELSE n IN IF m <= lo THEN lo ELSE m

\* The item cp steps back from the newest.
ItemAt(cp) == buffer[(head + size - 1 - cp) % Capacity]

ShowItem(cp) == pos' = cp + 1 /\ line' = ItemAt(cp)

GetOlder ==
    LET cp == IF CurrentItemPos = -1 THEN 0 ELSE CurrentItemPos
    IN  /\ cp # size
        /\ ShowItem(clampInt(IF CurrentItemPos = -1 THEN cp ELSE cp + 1, 0, size - 1))

GetNewer == /\ CurrentItemPos > 0
            /\ ShowItem(clampInt(CurrentItemPos - 1, 0, size - 1))

-----------------------------------------------------------------------------
(* The keys *)

appendCommandPrompt(tok) ==
    /\ Len(line) < MaxTokens
    /\ line' = Append(line, tok)
    /\ UNCHANGED <<ring, promptState>>

backspaceCommandPrompt ==
    /\ line # EmptyLine
    /\ line' = SubSeq(line, 1, Len(line) - 1)
    /\ UNCHANGED <<ring, promptState>>

Up == GetOlder /\ UNCHANGED <<buffer, head, size, promptState>>
Down == GetNewer /\ UNCHANGED <<buffer, head, size, promptState>>

Accepts(cmd) == /\ cmd.ok
                /\ IsUserDecisionCommand(cmd.kind) => promptState = "AllowPlayerDecision"

\* Mutant: the line is remembered before it is parsed.
RememberFirst ==
    /\ line # EmptyLine
    /\ Push(line)
    /\ pos' = 0
    /\ line' = EmptyLine
    /\ UNCHANGED promptState

\* handleCommandInput.  A line that is refused stays in the prompt and out of the
\* history; any other is handed to the client.
handleCommandInput ==
    /\ Accepts(ParseCommandFromInput(line))
    /\ Push(line)
    /\ pos' = 0
    /\ line' = EmptyLine
    /\ UNCHANGED promptState

\* The turn of the local player begins and ends.
SetState == /\ promptState' = IF promptState = "AllowPlayerDecision"
                          THEN "OnlyAllowInspect" ELSE "AllowPlayerDecision"
            /\ UNCHANGED <<line, ring>>

Next == \/ \E tok \in Token : appendCommandPrompt(tok)
        \/ backspaceCommandPrompt
        \/ Up
        \/ Down
        \/ handleCommandInput
        \/ SetState

Spec == Init /\ [][Next]_vars

-----------------------------------------------------------------------------
(* Properties *)

TypeOK == /\ line \in Line
          /\ buffer \in [Index -> Line]
          /\ head \in Index
          /\ size \in 0..Capacity
          /\ head # 0 => size = Capacity
          /\ pos \in 0..size
          /\ promptState \in {"OnlyAllowInspect", "AllowPlayerDecision"}

Remembered == {(head + i) % Capacity : i \in 0..size - 1}

\* Every line the arrow keys can bring back was once taken as a command: no slot
\* of the ring that is still empty, or holds a line handleCommandInput refused, is
\* ever shown.
HistoryHoldsCommands == \A i \in Remembered : ParseCommandFromInput(buffer[i]).ok

\* The ring with its head and its wrapped indices is the list of the last Capacity
\* commands, and the arrow keys walk it entry by entry.
Entries == [i \in 1..size |-> buffer[(head + i - 1) % Capacity]]
History == INSTANCE CommandHistory WITH entries <- Entries, cursor <- pos
HistoryIsAList == History!Spec

\* What can be typed, as a grammar: the cards of a drop command are a number and a
\* colour each, a wild card only a name.  Starts are the positions their numbers
\* are at.
IsWildToken(tok) == tok \in {Word("wild"), Word("wild4")}
IsColorToken(tok) == tok \in {Word("red"), Word("green"), Word("blue"), Word("yellow")}
CardList(text) ==
    \E starts \in SUBSET (2..Len(text)) :
        /\ 2 \in starts
        /\ \A i \in 2..Len(text) :
            IF i \in starts
            THEN /\ IsCardNumber(text[i])
                 /\ ~IsWildToken(text[i]) => i + 1 \in 2..Len(text) \ starts
            ELSE IsColorToken(text[i]) /\ i - 1 \in starts /\ ~IsWildToken(text[i - 1])

Grammar(text) ==
    \/ Len(text) = 1 /\ (IsWordOf(text[1], PlainCommand) \/ text[1] = Word("draw"))
    \/ Len(text) = 2 /\ text[1] = Word("wild_color") /\ IsColorToken(text[2])
    \/ Len(text) = 2 /\ text[1] = Word("dump_drawdeck") /\ text[2].kind = "int"
    \/ Len(text) > 1 /\ text[1] = Word("drop") /\ CardList(text)

\* The lines of the syntax comment above ParseCommandFromInput that the code refuses:
\* "draw NUMBER", "challenge NAME", "connect REMOTE_ADDRESS" and "table_info".  On
\* these comment and code disagree, and no statement here takes sides.
OnlyDocumented(text) ==
    \/ Len(text) = 2 /\ text[1] = Word("draw") /\ text[2].kind = "int" /\ text[2].value \in 0..9
    \/ Len(text) = 2 /\ text[1] = Word("challenge") /\ text[2].kind = "ident"
    \/ Len(text) > 1 /\ text[1] = Word("connect")
    \/ text = <<Word("table_info")>>

\* Leaving those aside, ParseCommandFromInput takes a line if and only if it is of
\* the form of the grammar, to its last token, however the cards of a drop command
\* are strung together.
ParsesTheGrammar ==
    ~OnlyDocumented(line) => (ParseCommandFromInput(line).ok <=> Grammar(line))

\* The decisions evalReplCommandOnTable can hand to the table: the card to drop is
\* one that can be printed, wild exactly when it has no colour, and the colour
\* chosen for a wild card is never the wild one.
PlayerDecision ==
    {[kind |-> k] : k \in {"PullFromDeck", "Pass", "DoChallenge", "DontChallenge"}}
    \cup {[kind |-> "PlayHandCard", card |-> f] :
            f \in {f \in FaceType : f.color = ColorWild <=> IsWild(f)}}
    \cup {[kind |-> "WildCardChooseColor", color |-> c] : c \in PlayableColor}

DecisionsAreSound ==
    LET cmd == ParseCommandFromInput(line)
    IN  cmd.ok /\ IsUserDecisionCommand(cmd.kind) => DecisionOf(cmd) \in PlayerDecision

=============================================================================
