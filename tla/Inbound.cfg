SPECIFICATION InboundMailSpec
CONSTANTS
    ApiKeys = {"k1", "k2"}
    Addresses = {"a", "b"}
    Emails = {"e1", "e2"}
    SoftWindow = 1
    SharedHard = TRUE
    Messages = {1, 2, 3, 4, 5, 6, 7, 8, 9, 10, 11, 12}
    MailOf <- MCMailOf
    Handlers = {h1, h2}
    KeyOf <- MCKeyOf
    RecipientsOf <- MCRecipientsOf
    ManualEntries <- MCManualEntries
    MaxFailures = 1
    MaxOperations = 1
    Traffic <- MCTraffic
    SmtpSessionIds = {"i", "s1", "s2", "s3"}
    ListenerOf <- MCListenerOf
    SubmissionOf <- MCSubmissionOf
    Mailboxes = {"a", "b", "c"}
    RcptKinds = {"unsub_valid", "unsub_forged", "return_valid", "return_forged", "domain_known", "domain_unknown"}
    MaxRecipients = 2
    Quotas = {0, 1}
    Days = {1, 2}
    MaxSmtpFaults = 2
CHECK_DEADLOCK FALSE
SYMMETRY HandlerSymmetry

    
    
    
PROPERTIES
    PermanentStays
