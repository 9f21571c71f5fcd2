SPECIFICATION Spec
CONSTANTS
  Campaign = {c1, c2}
  Person = {1, 2}
  Address = {a1, a2}
  Batch = 1
  MaxRevision = 4
  Delivery = {v1}
  BatchKey = {b1, b2}
  RecordKey = {k1, k2}
  Email = {e1}
  Phone = {p1}
  Domain = {acme}
  PerMinute = 1
  MaxProfiles = 2
  MaxSourceRevision = 2
  reply = reply
  stopMail = stopMail
  ours = ours
  theirs = theirs
  friend = friend
  stranger = stranger
  Mail = {reply, stopMail}
  Correspondent = {friend, stranger}
  Conversation = {ours, theirs}
  Sender <- SenderOf
  Partner <- PartnerOf
  Stops = {stopMail}
  Webhook = {hook}
  Desktop = {desk}
  MaxDeaths = 1
INVARIANTS
  MailCountsOnce
  
  AutomaticAsPreviewed
  OneProfilePerIdentity
PROPERTIES
  EveryMemberSettles
  EveryMailIsAnswered
CHECK_DEADLOCK FALSE
