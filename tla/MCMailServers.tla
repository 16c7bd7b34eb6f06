--------------------------- MODULE MCMailServers ---------------------------
(***************************************************************************)
(* The four mail providers, the sending of mail, and what is read from     *)
(* them: a folder page by page, a conversation, conversations that are     *)
(* transferred, or a search.  One at a time: the first state chooses the   *)
(* part.  Gmail has its variables to itself; the others that act on a      *)
(* mailbox share theirs, and the rest use v1 to v13, in the order they     *)
(* declare their own.                                                      *)
(***************************************************************************)
EXTENDS GmailMail

CONSTANTS ImapMessages, MaxMoves, MaxSends, MaxAttachments, Size, Subjects
CONSTANTS Page, First, MaxChanges, MaxAsks, MaxOpens, MaxDeletes
CONSTANTS Conversations, Long, Length, Limit, MaxTransfers, MaxFound, Stored, MaxSearches, MaxEvents
CONSTANTS m1, m2, m3

VARIABLES part, place, seen, date, folder, ops, number, named, free,
          moved, listed, cache, inbox, copies, deleted, sends,
          metas, parent, subjRoot, next,
          v1, v2, v3, v4, v5, v6, v7, v8, v9, v10, v11, v12, v13

common == <<place, seen, date, folder, ops, number, named, free>>
ewsOnly == <<moved>>
imapOnly == <<inbox, copies, deleted>>
threads == <<metas, parent, subjRoot, next>>
acting == <<vars, common, ewsOnly, listed, cache, imapOnly, sends, threads>>
reading == <<v1, v2, v3, v4, v5, v6, v7, v8, v9, v10, v11, v12, v13>>

Ews == INSTANCE EwsMail WITH at <- place, calls <- ops, count <- number, doomed <- named
Jmap == INSTANCE JmapMail WITH at <- place, calls <- ops, count <- number, doomed <- named
Imap == INSTANCE ImapMail WITH Messages <- ImapMessages, Parallel <- 1,
  calls <- ops, count <- number, doomed <- named
Sending == INSTANCE MailSending WITH opened <- place
Threads == INSTANCE ImapThreads
Paging == INSTANCE MailPaging WITH
  account <- v1, folder <- v2, arrived <- v3, gone <- v4, pages <- v5, offset <- v6, stable <- v7,
  asked <- v8, token <- v9, total <- v10, base <- v11, excused <- v12, asks <- v13
Conversation == INSTANCE OpenConversation WITH MaxAsks <- MaxOpens,
  kind <- v1, place <- v2, index <- v3, copy <- v4, view <- v5, open <- v6, data <- v7,
  fetch <- v8, calls <- v9, removed <- v10, excused <- v11, asks <- v12, deletes <- v13
Searching == INSTANCE MailSearch WITH Size <- Stored, Limit <- MaxFound,
  place <- v1, query <- v2, search <- v3, found <- v4, searches <- v5, events <- v6
Transferring == INSTANCE MailTransfer WITH MaxEvents <- MaxChanges,
  kind <- v1, at <- v2, drafts <- v3, copied <- v4, transfers <- v5, uncopied <- v6, begun <- v7, events <- v8

NoCommon == /\ date = {} /\ folder = FALSE /\ free = {}
NoEws == moved = <<>>
NoImap == inbox = <<>> /\ copies = <<>> /\ deleted = {}
NoList == listed = {}
NoThreads == metas = <<>> /\ parent = <<>> /\ subjRoot = <<>> /\ next = 0
NoOps == seen = {} /\ ops = {} /\ number = 0 /\ named = {}
NoServer == place = <<>> /\ NoOps
NoGmail == /\ at = [m \in Messages |-> {"INBOX"}] /\ held = Messages
           /\ calls = {} /\ count = 0 /\ doomed = {}

No8 == v9 = 0 /\ v10 = 0 /\ v11 = 0 /\ v12 = 0 /\ v13 = 0
NoReading == /\ v1 = 0 /\ v2 = 0 /\ v3 = 0 /\ v4 = 0 /\ v5 = 0 /\ v6 = 0 /\ v7 = 0
             /\ v8 = 0 /\ No8
NoActing == /\ NoGmail /\ NoCommon /\ NoServer /\ cache = {} /\ NoEws /\ NoImap /\ NoList
            /\ sends = <<>> /\ NoThreads

Acts == \/ /\ part = "ews" /\ Ews!Init
           /\ NoGmail /\ cache = {} /\ NoImap /\ sends = <<>> /\ NoThreads
        \/ /\ part = "jmap" /\ Jmap!Init
           /\ NoGmail /\ NoEws /\ NoImap /\ NoList /\ sends = <<>> /\ NoThreads
        \/ /\ part = "gmail" /\ Init
           /\ NoCommon /\ NoServer /\ cache = {} /\ NoEws /\ NoImap /\ NoList /\ sends = <<>> /\ NoThreads
        \/ /\ part = "imap" /\ Imap!Init
           /\ NoGmail /\ NoCommon /\ place = <<>> /\ cache = {} /\ NoEws /\ sends = <<>> /\ NoThreads
        \/ /\ part = "sending" /\ Sending!Init
           /\ NoGmail /\ NoCommon /\ NoOps /\ cache = {} /\ NoEws /\ NoImap /\ NoThreads
        \/ /\ part = "threads" /\ Threads!Init /\ sends = <<>>
           /\ NoGmail /\ NoCommon /\ NoServer /\ cache = {} /\ NoEws /\ NoImap /\ NoList
MCInit == \/ Acts /\ NoReading
          \/ part = "paging" /\ Paging!Init /\ NoActing
          \/ part = "conversation" /\ Conversation!Init /\ NoActing
          \/ part = "transfer" /\ Transferring!Init /\ No8 /\ NoActing
          \/ part = "search" /\ Searching!Init /\ v7 = 0 /\ v8 = 0 /\ No8 /\ NoActing

EwsStep == part = "ews" /\ Ews!Next /\ UNCHANGED <<part, vars, cache, imapOnly, sends, threads, reading>>
JmapStep == /\ part = "jmap" /\ Jmap!Next
            /\ UNCHANGED <<part, vars, ewsOnly, listed, imapOnly, sends, threads, reading>>
GmailStep == /\ part = "gmail" /\ Next
             /\ UNCHANGED <<part, common, cache, ewsOnly, listed, imapOnly, sends, threads, reading>>
ImapStep == /\ part = "imap" /\ Imap!Next
            /\ UNCHANGED <<part, vars, place, date, folder, free, cache, ewsOnly, sends, threads, reading>>
SendingStep == /\ part = "sending" /\ Sending!Next
               /\ UNCHANGED <<part, vars, seen, date, folder, ops, number, named, free, ewsOnly, cache, imapOnly,
                              threads, reading>>
ThreadsStep == /\ part = "threads" /\ Threads!Next
               /\ UNCHANGED <<part, vars, common, ewsOnly, listed, cache, imapOnly, sends, reading>>
PagingStep == part = "paging" /\ Paging!Next /\ UNCHANGED <<part, acting>>
ConversationStep == part = "conversation" /\ Conversation!Next /\ UNCHANGED <<part, acting>>
SearchStep == part = "search" /\ Searching!Next /\ UNCHANGED <<part, v7, v8, v9, v10, v11, v12, v13, acting>>
TransferStep == part = "transfer" /\ Transferring!Next /\ UNCHANGED <<part, v9, v10, v11, v12, v13, acting>>

MCNext == EwsStep \/ JmapStep \/ GmailStep \/ ImapStep \/ SendingStep \/ ThreadsStep
          \/ PagingStep \/ ConversationStep \/ TransferStep \/ SearchStep

MCSpec == MCInit /\ [][MCNext]_<<part, acting, reading>>
-----------------------------------------------------------------------------
\* Whatever fails and whatever overlaps, a mailbox behaves as MailboxContract
\* says (EwsMail, JmapMail, GmailMail, ImapMail).
Mailbox == INSTANCE MailboxContract WITH
  Messages <- Messages \cup ImapMessages,
  held <- CASE part = "ews" -> Ews!Held [] part = "jmap" -> Jmap!Held
            [] part = "gmail" -> held [] part = "imap" -> Imap!Held [] OTHER -> {},
  sent <- CASE part = "ews" -> Ews!InSent [] part = "jmap" -> Jmap!InSent
            [] part = "gmail" -> InSent [] OTHER -> {},
  doomed <- IF part = "gmail" THEN doomed ELSE named
KeepsMailbox == Mailbox!Spec

\* The answer of a send, or of the cancelling of a scheduled one, is true
\* (MailSending).
AnswerIsTrue == part = "sending" => Sending!AnswerIsTrue

\* The conversations of an IMAP folder are the connected components of its
\* messages (ImapThreads).
GroupsAreComponents == part = "threads" => Threads!GroupsAreComponents

\* A list misses nothing that was there while it was read: scrolling down a
\* folder that changes (MailPaging), and searching folders between which mail
\* moves (MailSearch).
ListsAreWhole == /\ part = "paging" => Paging!NoHoles
                 /\ part = "search" => Searching!FindsWhatStays

\* A message whose deletion succeeded does not come back (OpenConversation).
DeletedStaysOut == part = "conversation" => Conversation!DeletedStaysOut

\* A message moved to another account has its copy there (MailTransfer).
MovedIsCopied == part = "transfer" => Transferring!MovedIsCopied
=============================================================================
