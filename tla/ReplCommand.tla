---------------------------- MODULE ReplCommand ----------------------------
(***************************************************************************)
(* The commands a player types, as repl_command.go reads them: a line is    *)
(* the sequence of tokens the scanner finds in it, without regard to case.  *)
(* A parse yields a command and the position of the token it stopped at.    *)
(***************************************************************************)
EXTENDS Cards, Sequences

Word(w) == [kind |-> "ident", text |-> w]
Num(n) == [kind |-> "int", value |-> n]
EOF == [kind |-> "EOF"]

Scan(line, i) == IF i \in 1..Len(line) THEN line[i] ELSE EOF

ColorWord == [red |-> 1, green |-> 2, blue |-> 3, yellow |-> 4]
ActionWord == [skip |-> NumberSkip, rev |-> NumberReverse, draw2 |-> NumberDrawTwo,
               wild |-> NumberWild, wild4 |-> NumberWildDrawFour]

IsWordOf(tok, words) == tok.kind = "ident" /\ tok.text \in DOMAIN words

\* The commands of one word.
PlainCommand == [ready |-> "CmdDeclareReady", drawpile |-> "CmdDrawCardFromPile",
                 quit |-> "CmdQuit", challenge |-> "CmdChallenge",
                 no_challenge |-> "CmdNoChallenge", pass |-> "CmdPass",
                 connect_default |-> "CmdConnect", conndef |-> "CmdConnect",
                 table_summary |-> "CmdTableSummary", show_hand |-> "CmdShowHand"]

DecisionCommand == {"CmdDropCard", "CmdDrawCard", "CmdPass", "CmdDrawCardFromPile",
                    "CmdSetWildCardColor", "CmdNoChallenge", "CmdChallenge"}

IsUserDecisionCommand(kind) == kind \in DecisionCommand

-----------------------------------------------------------------------------
(* Parsing *)

NewReplCommand(kind, next) ==
    [ok |-> TRUE, kind |-> kind, cards |-> <<>>, color |-> ColorWild,
     count |-> 0, next |-> next]
ParseError == [NewReplCommand("CmdNone", 1) EXCEPT !.ok = FALSE]

IsCardNumber(tok) == \/ IsWordOf(tok, ActionWord)
                     \/ tok.kind = "int" /\ tok.value \in 0..9
CardNumber(tok) == IF tok.kind = "int" THEN tok.value ELSE ActionWord[tok.text]

\* Mutant: a wild card is read with a colour like any other.
WildHasNoColor(n) == FALSE

TakesNoColor(n) == n \in {NumberWild, NumberWildDrawFour}

\* One card from position i on: a number or an action, and a colour unless the
\* card is wild.
CardAt(line, i) ==
    LET tok  == Scan(line, i)
        wild == TakesNoColor(CardNumber(tok))
        col  == Scan(line, i + 1)
    IN  IF IsCardNumber(tok) /\ (wild \/ IsWordOf(col, ColorWord))
        THEN [ok |-> TRUE, next |-> IF wild THEN i + 1 ELSE i + 2,
              card |-> [number |-> CardNumber(tok),
                        color |-> IF wild THEN ColorWild ELSE ColorWord[col.text]]]
        ELSE [ok |-> FALSE]

\* The cards go on for as long as a word or a number follows.
parseCardSequence(line, first) ==
    LET from[i \in Nat] ==
            LET c == CardAt(line, i)
            IN  IF ~c.ok THEN ParseError
                ELSE LET rest == IF Scan(line, c.next).kind \in {"ident", "int"}
                                 THEN from[c.next]
                                 ELSE NewReplCommand("CmdDropCard", c.next)
                     IN  [rest EXCEPT !.cards = <<c.card>> \o @]
    IN  from[first]

\* The draw command with a count stops at the count instead of after it.
parseDraw(line) ==
    LET tok == Scan(line, 2)
        cmd == NewReplCommand("CmdDrawCard", 2)
    IN  IF tok.kind = "EOF" THEN [cmd EXCEPT !.count = 1]
        ELSE IF tok.kind = "int" /\ tok.value \in 0..9
             THEN [cmd EXCEPT !.count = tok.value]
             ELSE ParseError

parseWildColor(line) ==
    LET tok == Scan(line, 2)
    IN  IF IsWordOf(tok, ColorWord)
        THEN [NewReplCommand("CmdSetWildCardColor", 3) EXCEPT !.color = ColorWord[tok.text]]
        ELSE ParseError

parseDumpDrawDeck(line) ==
    LET tok == Scan(line, 2)
    IN  IF tok.kind = "int"
        THEN [NewReplCommand("CmdDumpDrawDeck", 3) EXCEPT !.count = tok.value]
        ELSE ParseError

\* The pattern of connect asks for a backslash, which no address has: every
\* connect command is refused.
parseCommand(line) ==
    LET tok == Scan(line, 1)
    IN  CASE IsWordOf(tok, PlainCommand) -> NewReplCommand(PlainCommand[tok.text], 2)
          [] tok = Word("draw") -> parseDraw(line)
          [] tok = Word("drop") -> parseCardSequence(line, 2)
          [] tok = Word("wild_color") -> parseWildColor(line)
          [] tok = Word("dump_drawdeck") -> parseDumpDrawDeck(line)
          [] OTHER -> ParseError

\* Mutant: what follows the command is not looked at.
ParsePrefix(line) == parseCommand(line)

ParseCommandFromInput(line) ==
    LET cmd == parseCommand(line)
    IN  IF cmd.ok /\ Scan(line, cmd.next).kind = "EOF" THEN cmd ELSE ParseError

-----------------------------------------------------------------------------
(* From a command to a decision *)

\* The decision evalReplCommandOnTable makes of a decision command.  Of the cards
\* of a drop command it plays the first.
DecisionOf(cmd) ==
    CASE cmd.kind = "CmdDropCard" -> [kind |-> "PlayHandCard", card |-> cmd.cards[1]]
      [] cmd.kind \in {"CmdDrawCard", "CmdDrawCardFromPile"} -> [kind |-> "PullFromDeck"]
      [] cmd.kind = "CmdSetWildCardColor" ->
           [kind |-> "WildCardChooseColor", color |-> cmd.color]
      [] cmd.kind = "CmdChallenge" -> [kind |-> "DoChallenge"]
      [] cmd.kind = "CmdNoChallenge" -> [kind |-> "DontChallenge"]
      [] cmd.kind = "CmdPass" -> [kind |-> "Pass"]

=============================================================================
