---------------------------- MODULE MailTransfer ----------------------------
(***************************************************************************)
(* Copying or moving conversations to another account                      *)
(* (transferConversations of MailPage.tsx): each is listed, its messages   *)
(* are exported and imported one by one, and after the last one a move     *)
(* puts the original in the trash.  Nothing keeps two transfers from       *)
(* running at once, and the mailbox changes under them.                    *)
(***************************************************************************)
EXTENDS Naturals, FiniteSets

CONSTANTS Conversations,
          Long,         \* those of more than one message
          Length,       \* messages of a long conversation
          Limit,        \* messages Exchange lists of a conversation
          MaxTransfers, \* bound: transfers
          MaxEvents     \* bound: messages that arrive

VARIABLES kind,      \* the provider of the source
          at,        \* where each message is in the source
          drafts,    \* the messages that are drafts
          copied,    \* the messages the destination has
          transfers, \* the transfers under way
          uncopied,  \* history: trashed by a move, listed by it and no draft, without a copy
          begun,     \* transfers so far; also numbers them
          events     \* messages arrived so far

vars == <<kind, at, drafts, copied, transfers, uncopied, begun, events>>

Kinds == {"ews", "jmap", "gmail"}
Places == {"coming", "inbox", "drafts", "trash"}
Operations == {"copy", "move"}
Originals == (Conversations \X {1}) \cup (Long \X (2..Length))
Of(c) == {m \in Originals : m[1] = c}

TypeOK == /\ kind \in Kinds /\ at \in [Originals -> Places] /\ copied \subseteq Originals
          /\ drafts \subseteq Originals /\ uncopied \subseteq Originals /\ begun \in 0..MaxTransfers /\ events \in 0..MaxEvents
          /\ \A t \in transfers :
               /\ t.operation \in Operations /\ t.at \in {"list", "copy", "collect", "trash", "end"}
               /\ t.rest \subseteq t.selected /\ t.selected \subseteq Conversations
               /\ {t.listed, t.todo, t.ids} \subseteq SUBSET Originals

\* The first message of a conversation is in the inbox, so that it can be selected.
Init == /\ kind \in Kinds
        /\ at \in {f \in [Originals -> Places] : \A c \in Conversations : f[<<c, 1>>] = "inbox"}
        /\ drafts = {m \in Originals : at[m] = "drafts"}
        /\ copied = {} /\ transfers = {} /\ uncopied = {} /\ begun = 0 /\ events = 0
-----------------------------------------------------------------------------
\* The folder picker confirms.
Transfer(selected, operation) ==
  /\ begun < MaxTransfers /\ selected # {}
  /\ \A c \in selected : \E m \in Of(c) : at[m] = "inbox"
  /\ begun' = begun + 1
  /\ transfers' = transfers \cup
       {[n |-> begun, operation |-> operation, selected |-> selected, at |-> "list",
         rest |-> selected, listed |-> {}, todo |-> {}, ids |-> {}]}
  /\ UNCHANGED <<kind, drafts, at, copied, uncopied, events>>

Goes(t, u) == transfers' = (transfers \ {t}) \cup {u}

\* getThread with the trash and the drafts: Gmail and JMAP list the whole thread,
\* Exchange as many items as it is asked for.
Listings(c, places) ==
  LET found == {m \in Of(c) : at[m] \in places}
  IN  IF kind = "ews" THEN {s \in SUBSET found : Cardinality(s) <= Limit /\ (Cardinality(s) < Limit => s = found)}
      ELSE {found}

\* transferConversations takes the next conversation and leaves out its drafts.
List(t) == /\ t.at = "list" /\ t.rest # {}
           /\ \E c \in t.rest : \E found \in Listings(c, {"inbox", "drafts", "trash"}) :
                Goes(t, [t EXCEPT !.rest = @ \ {c}, !.listed = found, !.todo = found \ drafts, !.at = "copy"])
           /\ UNCHANGED <<kind, drafts, at, copied, uncopied, begun, events>>

\* getRawMessageSource, then importRawMessage, message by message.
Copy(t, m) == /\ t.at = "copy" /\ m \in t.todo
              /\ copied' = copied \cup {m}
              /\ Goes(t, [t EXCEPT !.todo = @ \ {m}])
              /\ UNCHANGED <<kind, drafts, at, uncopied, begun, events>>

\* After the last import, not before; a slip that does not wait for the imports.
MayCollectAtOnce(t) == t.at = "copy" /\ t.operation = "move"
MayCollect(t) == t.at = "copy" /\ t.operation = "move" /\ t.todo = {}
Whole(c) == {m \in Of(c) : at[m] # "coming"}
Current(t) == t.selected \cap {m[1] : m \in t.listed}

\* collectItemIds of the Exchange client lists the conversation anew, without drafts and
\* trash; the others name the thread, whose messages the server collects.
Collect(t) ==
  /\ MayCollect(t)
  /\ \E c \in Current(t) :
       \E ids \in IF kind = "ews" THEN Listings(c, {"inbox"}) ELSE {Whole(c)} :
         Goes(t, [t EXCEPT !.ids = ids, !.at = "trash"])
  /\ UNCHANGED <<kind, drafts, at, copied, uncopied, begun, events>>

\* threads.trash collects and moves in one request.
Trashed(t) == IF kind = "gmail" THEN t.ids \cup {m \in Originals : m[1] \in {i[1] : i \in t.ids} /\ at[m] # "coming"}
              ELSE t.ids
Trash(t) ==
  /\ t.at = "trash"
  /\ at' = [m \in Originals |-> IF m \in Trashed(t) THEN "trash" ELSE at[m]]
  /\ uncopied' = uncopied \cup ((Trashed(t) \cap t.listed) \ (drafts \cup copied))
  /\ Goes(t, [t EXCEPT !.at = "list"])
  /\ UNCHANGED <<kind, drafts, copied, begun, events>>

\* A copy goes on without the trash.
Keep(t) == /\ t.at = "copy" /\ t.operation = "copy" /\ t.todo = {}
           /\ Goes(t, [t EXCEPT !.at = "list"])
           /\ UNCHANGED <<kind, drafts, at, copied, uncopied, begun, events>>

\* All done: the list is loaded again.
Done(t) ==
  /\ t.at = "list" /\ t.rest = {}
  /\ transfers' = transfers \ {t}
  /\ UNCHANGED <<kind, drafts, at, copied, uncopied, begun, events>>

\* Any request fails: the transfer ends and the toast tells; a lost answer of an import or
\* of the trash leaves its effect.  Nothing is taken back.
Fails(t) == /\ transfers' = transfers \ {t}
            /\ UNCHANGED <<kind, drafts, at, copied, uncopied, begun, events>>
CopyUnanswered(t, m) == /\ t.at = "copy" /\ m \in t.todo
                        /\ copied' = copied \cup {m}
                        /\ transfers' = transfers \ {t}
                        /\ UNCHANGED <<kind, drafts, at, uncopied, begun, events>>
-----------------------------------------------------------------------------
\* A message arrives in the conversation.
Arrive(m) == /\ at[m] = "coming" /\ events < MaxEvents
             /\ at' = [at EXCEPT ![m] = "inbox"]
             /\ events' = events + 1
             /\ UNCHANGED <<kind, drafts, copied, transfers, uncopied, begun>>

Next == \/ \E cs \in SUBSET Conversations, operation \in Operations : Transfer(cs, operation)
        \/ \E t \in transfers : List(t) \/ Collect(t) \/ Trash(t) \/ Keep(t) \/ Done(t) \/ Fails(t)
        \/ \E t \in transfers, m \in Originals : Copy(t, m) \/ CopyUnanswered(t, m)
        \/ \E m \in Originals : Arrive(m)

Spec == Init /\ [][Next]_vars
-----------------------------------------------------------------------------
\* "Supprimer l'original après une copie réussie" (FolderPickerPopover.tsx 216): a
\* message a move listed and put in the trash has its copy, whatever failed or ran
\* at the same time.  Drafts, and messages the move did not list because they
\* arrived later or were beyond Exchange's limit, go to the trash without one.
MovedIsCopied == uncopied = {}
=============================================================================
