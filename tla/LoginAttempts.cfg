\* QR and SMS logins of two employees that replace each other; the refresh button.
SPECIFICATION FairSpec
CONSTANTS
    ann = ann
    bob = bob
    dingtalk = dingtalk
    wechat = wechat
    number = number
    caller1 = caller1
    caller2 = caller2
    Employee = {ann, bob}
    Provider = {dingtalk}
    Phone = {number}
    Maximum = 1
    MaxRuns = 2
    Submits = {caller1, caller2}
CHECK_DEADLOCK FALSE
INVARIANT LimitHolds
PROPERTIES SuccessIsTrue BrowsersClose
