SPECIFICATION FairMailSpec
CONSTANTS
    MailJob = {1}
    AuthJob = {1}
    MailWorker = {w1, w2}
    MaxMailAttempts = 2
    MaxMailSettings = 0
    MaxMailStops = 0
    NoJob = NoJob
PROPERTIES AuthMailSettles
