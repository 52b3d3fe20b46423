------------------------------ MODULE MCBackground ------------------------------
EXTENDS Background
CONSTANTS control1, list1, list2, mail1, mail2
MCClientOf == <<"c1", "c1", "c2">>
MCAgentOf == <<"sales", "care", "sales">>
MCFirstNames == [a \in {"care", "sales"} |-> IF a = "care" THEN 1 ELSE 2]
None == [n \in Names |-> 0]
MCTexts == {[number |-> 1, whole |-> {}, names |-> {}, words |-> None],
  [number |-> 0, whole |-> {2}, names |-> {2}, words |-> [None EXCEPT ![2] = 1]],
  [number |-> 0, whole |-> {}, names |-> {}, words |-> [None EXCEPT ![1] = 1]],
  [number |-> 0, whole |-> {}, names |-> {}, words |-> None]}
MCLifetimes == {[idle |-> 2, absolute |-> 4, throttle |-> 3],
                [idle |-> 3, absolute |-> 4, throttle |-> 1]}
MCLength == <<31, 28, 31, 30, 31, 30, 31, 31, 30, 31, 30, 31>>
MCAnchorOf == [c \in Customers |-> IF c = "early" THEN 2 ELSE 31]
MCAdmins == <<"admin">>
MCPersonalities == <<"personality">>
MCSeedAgents == <<"agent">>
MCChannels == <<"channel">>
MCOwners == <<"anna", "ben">>
MCMembersOf == [anna |-> <<"amy">>, ben |-> <<"bob">>]
MCExtraHires == [anna |-> 0, ben |-> 1]
MCEventsOf == [wa |-> <<"a", "b">>, ig |-> <<"c", "-", "d">>, tt |-> <<"e">>]
MCProviderOf == [wa |-> "dialog360", ig |-> "instagram", tt |-> "tiktok"]
MCStoredFields == [wa |-> {"apiKey"}, ig |-> {}, tt |-> {}]
MCRow(s, n, a, c) == [sku |-> s, name |-> n, amount |-> a, currency |-> c]
MCBatches == {<<MCRow("A", 1, 1, "EUR"), MCRow("B", 1, 0, "-"), MCRow("A", 1, 1, "EUR")>>,
  <<MCRow("C", 2, 2, "USD")>>, <<MCRow("A", 1, 0, "-"), MCRow("A", 2, 0, "-")>>}
MCFiles == {[kind |-> "table", size |-> 3, columns |-> TRUE],
  [kind |-> "table", size |-> 1, columns |-> FALSE], [kind |-> "text", size |-> 0, columns |-> FALSE],
  [kind |-> "text", size |-> 2, columns |-> FALSE], [kind |-> "picture", size |-> 0, columns |-> FALSE]}
MCTypedOf == [u \in Mailboxes |-> IF u = "blanks" THEN " same" ELSE "same"]
MCAddressOf == [u \in Mailboxes |-> "same"]
MCChunkOf == [p \in Passes |-> IF p \in {list2, mail2} THEN 2 ELSE 1]
MCBoots == {{control1}, {list1, list2}, {mail1, mail2}}
================================================================================
