----------------------- MODULE ComputeOperationsProtos ------------------------
(* The message classes and enums of src/protos/compute_operations.js: the   *)
(* operations of Compute Engine.                                            *)
EXTENDS ProtoSchema

-----------------------------------------------------------------------------
Operation == Message("google.cloud.compute.v1",
  <<Optional("id", 3355, "string"), Optional("kind", 3292052, "string"),
    Optional("name", 3373707, "string"), Optional("user", 3599307, "string"),
    Optional("zone", 3744684, "string"),
    Optional("creationTimestamp", 30525366, "string"),
    Optional("startTime", 37467274, "string"),
    Optional("targetLink", 62671336, "string"),
    Optional("progress", 72663597, "int32"), Optional("error", 96784904, "Error"),
    Optional("endTime", 114938801, "string"),
    Optional("region", 138946292, "string"),
    Optional("operationType", 177650450, "string"),
    Optional("status", 181260274, "Operation_Status"),
    Optional("httpErrorMessage", 202521945, "string"),
    Optional("targetId", 258165385, "string"),
    Optional("clientOperationId", 297240295, "string"),
    Optional("statusMessage", 297428154, "string"),
    Optional("httpErrorStatusCode", 312345196, "int32"),
    Optional("description", 422937596, "string"),
    Optional("insertTime", 433722515, "string"),
    Optional("selfLink", 456214797, "string"),
    Repeated("warnings", 498091095, "Warnings")>>)

Operation_Status == Enum("google.cloud.compute.v1",
    [UNDEFINED_STATUS |-> 0, DONE |-> 2104194, PENDING |-> 35394935,
     RUNNING |-> 121282975])

Errors == Message("google.cloud.compute.v1",
  <<Optional("code", 3059181, "string"), Optional("location", 290430901, "string"),
    Optional("message", 418054151, "string")>>)

Error == Message("google.cloud.compute.v1",
  <<Repeated("errors", 315977579, "Errors")>>)

Warnings == Message("google.cloud.compute.v1",
  <<Optional("code", 3059181, "Warnings_Code"), Repeated("data", 3076010, "Data"),
    Optional("message", 418054151, "string")>>)

Warnings_Code == Enum("google.cloud.compute.v1",
    [UNDEFINED_CODE |-> 0, CLEANUP_FAILED |-> 150308440,
     DEPRECATED_RESOURCE_USED |-> 391835586, DEPRECATED_TYPE_USED |-> 346526230,
     DISK_SIZE_LARGER_THAN_IMAGE_SIZE |-> 369442967,
     EXPERIMENTAL_TYPE_USED |-> 451954443, EXTERNAL_API_WARNING |-> 175546307,
     FIELD_VALUE_OVERRIDEN |-> 329669423, INJECTED_KERNELS_DEPRECATED |-> 417377419,
     MISSING_TYPE_DEPENDENCY |-> 344505463,
     NEXT_HOP_ADDRESS_NOT_ASSIGNED |-> 324964999,
     NEXT_HOP_CANNOT_IP_FORWARD |-> 383382887,
     NEXT_HOP_INSTANCE_NOT_FOUND |-> 464250446,
     NEXT_HOP_INSTANCE_NOT_ON_NETWORK |-> 243758146,
     NEXT_HOP_NOT_RUNNING |-> 417081265, NOT_CRITICAL_ERROR |-> 105763924,
     NO_RESULTS_ON_PAGE |-> 30036744, REQUIRED_TOS_AGREEMENT |-> 3745539,
     RESOURCE_IN_USE_BY_OTHER_RESOURCE_WARNING |-> 496728641,
     RESOURCE_NOT_DELETED |-> 168598460, SCHEMA_VALIDATION_IGNORED |-> 275245642,
     SINGLE_INSTANCE_PROPERTY_TEMPLATE |-> 268305617,
     UNDECLARED_PROPERTIES |-> 390513439, UNREACHABLE |-> 13328052])

Warning == Message("google.cloud.compute.v1",
  <<Optional("code", 3059181, "Warning_Code"), Repeated("data", 3076010, "Data"),
    Optional("message", 418054151, "string")>>)

Warning_Code == Enum("google.cloud.compute.v1",
    [UNDEFINED_CODE |-> 0, CLEANUP_FAILED |-> 150308440,
     DEPRECATED_RESOURCE_USED |-> 391835586, DEPRECATED_TYPE_USED |-> 346526230,
     DISK_SIZE_LARGER_THAN_IMAGE_SIZE |-> 369442967,
     EXPERIMENTAL_TYPE_USED |-> 451954443, EXTERNAL_API_WARNING |-> 175546307,
     FIELD_VALUE_OVERRIDEN |-> 329669423, INJECTED_KERNELS_DEPRECATED |-> 417377419,
     LARGE_DEPLOYMENT_WARNING |-> 481440678, MISSING_TYPE_DEPENDENCY |-> 344505463,
     NEXT_HOP_ADDRESS_NOT_ASSIGNED |-> 324964999,
     NEXT_HOP_CANNOT_IP_FORWARD |-> 383382887,
     NEXT_HOP_INSTANCE_NOT_FOUND |-> 464250446,
     NEXT_HOP_INSTANCE_NOT_ON_NETWORK |-> 243758146,
     NEXT_HOP_NOT_RUNNING |-> 417081265, NOT_CRITICAL_ERROR |-> 105763924,
     NO_RESULTS_ON_PAGE |-> 30036744, PARTIAL_SUCCESS |-> 39966469,
     REQUIRED_TOS_AGREEMENT |-> 3745539,
     RESOURCE_IN_USE_BY_OTHER_RESOURCE_WARNING |-> 496728641,
     RESOURCE_NOT_DELETED |-> 168598460, SCHEMA_VALIDATION_IGNORED |-> 275245642,
     SINGLE_INSTANCE_PROPERTY_TEMPLATE |-> 268305617,
     UNDECLARED_PROPERTIES |-> 390513439, UNREACHABLE |-> 13328052])

Data == Message("google.cloud.compute.v1",
  <<Optional("key", 106079, "string"), Optional("value", 111972721, "string")>>)

OperationsScopedList == Message("google.cloud.compute.v1",
  <<Repeated("operations", 4184044, "Operation"),
    Optional("warning", 50704284, "Warning")>>)

OperationAggregatedList == Message("google.cloud.compute.v1",
  <<Optional("id", 3355, "string"), Optional("kind", 3292052, "string"),
    Optional("warning", 50704284, "Warning"),
    Optional("nextPageToken", 79797525, "string"),
    MapOf("items", 100526016, "OperationsScopedList"),
    Repeated("unreachables", 243372063, "string"),
    Optional("selfLink", 456214797, "string")>>)

GetRegionOperationRequest == Message("google.cloud.compute.v1",
  <<One("operation", 52090215, "string"), One("region", 138946292, "string"),
    One("project", 227560217, "string")>>)

DeleteRegionOperationRequest == Message("google.cloud.compute.v1",
  <<One("operation", 52090215, "string"), One("region", 138946292, "string"),
    One("project", 227560217, "string")>>)

DeleteRegionOperationResponse == Message("google.cloud.compute.v1", <<>>)

ListRegionOperationsRequest == Message("google.cloud.compute.v1",
  <<Optional("pageToken", 19994697, "string"),
    Optional("maxResults", 54715419, "uint32"), One("region", 138946292, "string"),
    Optional("orderBy", 160562920, "string"), One("project", 227560217, "string"),
    Optional("filter", 336120696, "string"),
    Optional("returnPartialSuccess", 517198390, "bool")>>)

OperationList == Message("google.cloud.compute.v1",
  <<Optional("id", 3355, "string"), Optional("kind", 3292052, "string"),
    Optional("warning", 50704284, "Warning"),
    Optional("nextPageToken", 79797525, "string"),
    Repeated("items", 100526016, "Operation"),
    Optional("selfLink", 456214797, "string")>>)

WaitRegionOperationRequest == Message("google.cloud.compute.v1",
  <<One("operation", 52090215, "string"), One("region", 138946292, "string"),
    One("project", 227560217, "string")>>)

DeleteZoneOperationRequest == Message("google.cloud.compute.v1",
  <<One("zone", 3744684, "string"), One("operation", 52090215, "string"),
    One("project", 227560217, "string")>>)

DeleteZoneOperationResponse == Message("google.cloud.compute.v1", <<>>)

GetZoneOperationRequest == Message("google.cloud.compute.v1",
  <<One("zone", 3744684, "string"), One("operation", 52090215, "string"),
    One("project", 227560217, "string")>>)

ListZoneOperationsRequest == Message("google.cloud.compute.v1",
  <<One("zone", 3744684, "string"), Optional("pageToken", 19994697, "string"),
    Optional("maxResults", 54715419, "uint32"),
    Optional("orderBy", 160562920, "string"), One("project", 227560217, "string"),
    Optional("filter", 336120696, "string"),
    Optional("returnPartialSuccess", 517198390, "bool")>>)

WaitZoneOperationRequest == Message("google.cloud.compute.v1",
  <<One("zone", 3744684, "string"), One("operation", 52090215, "string"),
    One("project", 227560217, "string")>>)

AggregatedListGlobalOperationsRequest == Message("google.cloud.compute.v1",
  <<Optional("pageToken", 19994697, "string"),
    Optional("maxResults", 54715419, "uint32"),
    Optional("orderBy", 160562920, "string"), One("project", 227560217, "string"),
    Optional("filter", 336120696, "string"),
    Optional("includeAllScopes", 391327988, "bool"),
    Optional("returnPartialSuccess", 517198390, "bool")>>)

DeleteGlobalOperationRequest == Message("google.cloud.compute.v1",
  <<One("operation", 52090215, "string"), One("project", 227560217, "string")>>)

DeleteGlobalOperationResponse == Message("google.cloud.compute.v1", <<>>)

GetGlobalOperationRequest == Message("google.cloud.compute.v1",
  <<One("operation", 52090215, "string"), One("project", 227560217, "string")>>)

ListGlobalOperationsRequest == Message("google.cloud.compute.v1",
  <<Optional("pageToken", 19994697, "string"),
    Optional("maxResults", 54715419, "uint32"),
    Optional("orderBy", 160562920, "string"), One("project", 227560217, "string"),
    Optional("filter", 336120696, "string"),
    Optional("returnPartialSuccess", 517198390, "bool")>>)

WaitGlobalOperationRequest == Message("google.cloud.compute.v1",
  <<One("operation", 52090215, "string"), One("project", 227560217, "string")>>)

DeleteGlobalOrganizationOperationRequest == Message("google.cloud.compute.v1",
  <<One("operation", 52090215, "string"), Optional("parentId", 459714768, "string")>>)

DeleteGlobalOrganizationOperationResponse == Message("google.cloud.compute.v1", <<>>)

GetGlobalOrganizationOperationRequest == Message("google.cloud.compute.v1",
  <<One("operation", 52090215, "string"), Optional("parentId", 459714768, "string")>>)

ListGlobalOrganizationOperationsRequest == Message("google.cloud.compute.v1",
  <<Optional("pageToken", 19994697, "string"),
    Optional("maxResults", 54715419, "uint32"),
    Optional("orderBy", 160562920, "string"),
    Optional("filter", 336120696, "string"),
    Optional("parentId", 459714768, "string"),
    Optional("returnPartialSuccess", 517198390, "bool")>>)

-----------------------------------------------------------------------------
Http == Message("google.api",
  <<Repeated("rules", 1, "HttpRule"), One("fullyDecodeReservedExpansion", 2, "bool")>>)

HttpRule == Message("google.api",
  <<One("selector", 1, "string"), Choice("pattern", "get", 2, "string"),
    Choice("pattern", "put", 3, "string"), Choice("pattern", "post", 4, "string"),
    Choice("pattern", "delete", 5, "string"),
    Choice("pattern", "patch", 6, "string"), One("body", 7, "string"),
    Choice("pattern", "custom", 8, "CustomHttpPattern"),
    Repeated("additionalBindings", 11, "HttpRule"),
    One("responseBody", 12, "string")>>)

CustomHttpPattern == Message("google.api",
  <<One("kind", 1, "string"), One("path", 2, "string")>>)

-----------------------------------------------------------------------------
FileDescriptorSet == Message("google.protobuf",
  <<Repeated("file", 1, "FileDescriptorProto")>>)

FileDescriptorProto == Message("google.protobuf",
  <<One("name", 1, "string"), One("package", 2, "string"),
    Repeated("dependency", 3, "string"),
    Repeated("messageType", 4, "DescriptorProto"),
    Repeated("enumType", 5, "EnumDescriptorProto"),
    Repeated("service", 6, "ServiceDescriptorProto"),
    Repeated("extension", 7, "FieldDescriptorProto"),
    Sub("options", 8, "FileOptions"), Sub("sourceCodeInfo", 9, "SourceCodeInfo"),
    Repeated("publicDependency", 10, "int32"),
    Repeated("weakDependency", 11, "int32"), One("syntax", 12, "string")>>)

DescriptorProto == Message("google.protobuf",
  <<One("name", 1, "string"), Repeated("field", 2, "FieldDescriptorProto"),
    Repeated("nestedType", 3, "DescriptorProto"),
    Repeated("enumType", 4, "EnumDescriptorProto"),
    Repeated("extensionRange", 5, "DescriptorProto_ExtensionRange"),
    Repeated("extension", 6, "FieldDescriptorProto"),
    Sub("options", 7, "MessageOptions"),
    Repeated("oneofDecl", 8, "OneofDescriptorProto"),
    Repeated("reservedRange", 9, "DescriptorProto_ReservedRange"),
    Repeated("reservedName", 10, "string")>>)

DescriptorProto_ExtensionRange == Message("google.protobuf",
  <<One("start", 1, "int32"), One("end", 2, "int32"),
    Sub("options", 3, "ExtensionRangeOptions")>>)

DescriptorProto_ReservedRange == Message("google.protobuf",
  <<One("start", 1, "int32"), One("end", 2, "int32")>>)

ExtensionRangeOptions == Message("google.protobuf",
  <<Repeated("uninterpretedOption", 999, "UninterpretedOption")>>)

FieldDescriptorProto == Message("google.protobuf",
  <<One("name", 1, "string"), One("extendee", 2, "string"),
    One("number", 3, "int32"), OneOr("label", 4, "FieldDescriptorProto_Label", 1),
    OneOr("type", 5, "FieldDescriptorProto_Type", 1), One("typeName", 6, "string"),
    One("defaultValue", 7, "string"), Sub("options", 8, "FieldOptions"),
    One("oneofIndex", 9, "int32"), One("jsonName", 10, "string"),
    One("proto3Optional", 17, "bool")>>)

FieldDescriptorProto_Type == Enum("google.protobuf",
    [TYPE_DOUBLE |-> 1, TYPE_FLOAT |-> 2, TYPE_INT64 |-> 3, TYPE_UINT64 |-> 4,
     TYPE_INT32 |-> 5, TYPE_FIXED64 |-> 6, TYPE_FIXED32 |-> 7, TYPE_BOOL |-> 8,
     TYPE_STRING |-> 9, TYPE_GROUP |-> 10, TYPE_MESSAGE |-> 11, TYPE_BYTES |-> 12,
     TYPE_UINT32 |-> 13, TYPE_ENUM |-> 14, TYPE_SFIXED32 |-> 15,
     TYPE_SFIXED64 |-> 16, TYPE_SINT32 |-> 17, TYPE_SINT64 |-> 18])

FieldDescriptorProto_Label == Enum("google.protobuf",
    [LABEL_OPTIONAL |-> 1, LABEL_REQUIRED |-> 2, LABEL_REPEATED |-> 3])

OneofDescriptorProto == Message("google.protobuf",
  <<One("name", 1, "string"), Sub("options", 2, "OneofOptions")>>)

EnumDescriptorProto == Message("google.protobuf",
  <<One("name", 1, "string"), Repeated("value", 2, "EnumValueDescriptorProto"),
    Sub("options", 3, "EnumOptions"),
    Repeated("reservedRange", 4, "EnumDescriptorProto_EnumReservedRange"),
    Repeated("reservedName", 5, "string")>>)

EnumDescriptorProto_EnumReservedRange == Message("google.protobuf",
  <<One("start", 1, "int32"), One("end", 2, "int32")>>)

EnumValueDescriptorProto == Message("google.protobuf",
  <<One("name", 1, "string"), One("number", 2, "int32"),
    Sub("options", 3, "EnumValueOptions")>>)

ServiceDescriptorProto == Message("google.protobuf",
  <<One("name", 1, "string"), Repeated("method", 2, "MethodDescriptorProto"),
    Sub("options", 3, "ServiceOptions")>>)

MethodDescriptorProto == Message("google.protobuf",
  <<One("name", 1, "string"), One("inputType", 2, "string"),
    One("outputType", 3, "string"), Sub("options", 4, "MethodOptions"),
    One("clientStreaming", 5, "bool"), One("serverStreaming", 6, "bool")>>)

FileOptions == Message("google.protobuf",
  <<One("javaPackage", 1, "string"), One("javaOuterClassname", 8, "string"),
    OneOr("optimizeFor", 9, "FileOptions_OptimizeMode", 1),
    One("javaMultipleFiles", 10, "bool"), One("goPackage", 11, "string"),
    One("ccGenericServices", 16, "bool"), One("javaGenericServices", 17, "bool"),
    One("pyGenericServices", 18, "bool"),
    One("javaGenerateEqualsAndHash", 20, "bool"), One("deprecated", 23, "bool"),
    One("javaStringCheckUtf8", 27, "bool"), OneOr("ccEnableArenas", 31, "bool", 1),
    One("objcClassPrefix", 36, "string"), One("csharpNamespace", 37, "string"),
    One("swiftPrefix", 39, "string"), One("phpClassPrefix", 40, "string"),
    One("phpNamespace", 41, "string"), One("phpGenericServices", 42, "bool"),
    One("phpMetadataNamespace", 44, "string"), One("rubyPackage", 45, "string"),
    Repeated("uninterpretedOption", 999, "UninterpretedOption")>>)

FileOptions_OptimizeMode == Enum("google.protobuf",
    [SPEED |-> 1, CODE_SIZE |-> 2, LITE_RUNTIME |-> 3])

MessageOptions == Message("google.protobuf",
  <<One("messageSetWireFormat", 1, "bool"),
    One("noStandardDescriptorAccessor", 2, "bool"), One("deprecated", 3, "bool"),
    One("mapEntry", 7, "bool"),
    Repeated("uninterpretedOption", 999, "UninterpretedOption")>>)

FieldOptions == Message("google.protobuf",
  <<One("ctype", 1, "FieldOptions_CType"), One("packed", 2, "bool"),
    One("deprecated", 3, "bool"), One("lazy", 5, "bool"),
    One("jstype", 6, "FieldOptions_JSType"), One("weak", 10, "bool"),
    Repeated("uninterpretedOption", 999, "UninterpretedOption")>>)

FieldOptions_CType == Enum("google.protobuf",
    [STRING |-> 0, CORD |-> 1, STRING_PIECE |-> 2])

FieldOptions_JSType == Enum("google.protobuf",
    [JS_NORMAL |-> 0, JS_STRING |-> 1, JS_NUMBER |-> 2])

OneofOptions == Message("google.protobuf",
  <<Repeated("uninterpretedOption", 999, "UninterpretedOption")>>)

EnumOptions == Message("google.protobuf",
  <<One("allowAlias", 2, "bool"), One("deprecated", 3, "bool"),
    Repeated("uninterpretedOption", 999, "UninterpretedOption")>>)

EnumValueOptions == Message("google.protobuf",
  <<One("deprecated", 1, "bool"),
    Repeated("uninterpretedOption", 999, "UninterpretedOption")>>)

ServiceOptions == Message("google.protobuf",
  <<One("deprecated", 33, "bool"),
    Repeated("uninterpretedOption", 999, "UninterpretedOption")>>)

MethodOptions == Message("google.protobuf",
  <<One("deprecated", 33, "bool"),
    One("idempotencyLevel", 34, "MethodOptions_IdempotencyLevel"),
    Repeated("uninterpretedOption", 999, "UninterpretedOption"),
    Sub(".google.api.http", 72295728, "HttpRule")>>)

MethodOptions_IdempotencyLevel == Enum("google.protobuf",
    [IDEMPOTENCY_UNKNOWN |-> 0, NO_SIDE_EFFECTS |-> 1, IDEMPOTENT |-> 2])

UninterpretedOption == Message("google.protobuf",
  <<Repeated("name", 2, "UninterpretedOption_NamePart"),
    One("identifierValue", 3, "string"), One("positiveIntValue", 4, "uint64"),
    One("negativeIntValue", 5, "int64"), One("doubleValue", 6, "double"),
    One("stringValue", 7, "bytes"), One("aggregateValue", 8, "string")>>)

UninterpretedOption_NamePart == Message("google.protobuf",
  <<Required("namePart", 1, "string"), Required("isExtension", 2, "bool")>>)

SourceCodeInfo == Message("google.protobuf",
  <<Repeated("location", 1, "SourceCodeInfo_Location")>>)

SourceCodeInfo_Location == Message("google.protobuf",
  <<Packed("path", 1, "int32"), Packed("span", 2, "int32"),
    One("leadingComments", 3, "string"), One("trailingComments", 4, "string"),
    Repeated("leadingDetachedComments", 6, "string")>>)

GeneratedCodeInfo == Message("google.protobuf",
  <<Repeated("annotation", 1, "GeneratedCodeInfo_Annotation")>>)

GeneratedCodeInfo_Annotation == Message("google.protobuf",
  <<Packed("path", 1, "int32"), One("sourceFile", 2, "string"),
    One("begin", 3, "int32"), One("end", 4, "int32")>>)

-----------------------------------------------------------------------------
(* All of them, under their names. *)
Package ==
    [Operation |-> Operation, Operation_Status |-> Operation_Status,
     Errors |-> Errors, Error |-> Error, Warnings |-> Warnings,
     Warnings_Code |-> Warnings_Code, Warning |-> Warning,
     Warning_Code |-> Warning_Code, Data |-> Data,
     OperationsScopedList |-> OperationsScopedList,
     OperationAggregatedList |-> OperationAggregatedList,
     GetRegionOperationRequest |-> GetRegionOperationRequest,
     DeleteRegionOperationRequest |-> DeleteRegionOperationRequest,
     DeleteRegionOperationResponse |-> DeleteRegionOperationResponse,
     ListRegionOperationsRequest |-> ListRegionOperationsRequest,
     OperationList |-> OperationList,
     WaitRegionOperationRequest |-> WaitRegionOperationRequest,
     DeleteZoneOperationRequest |-> DeleteZoneOperationRequest,
     DeleteZoneOperationResponse |-> DeleteZoneOperationResponse,
     GetZoneOperationRequest |-> GetZoneOperationRequest,
     ListZoneOperationsRequest |-> ListZoneOperationsRequest,
     WaitZoneOperationRequest |-> WaitZoneOperationRequest,
     AggregatedListGlobalOperationsRequest |-> AggregatedListGlobalOperationsRequest,
     DeleteGlobalOperationRequest |-> DeleteGlobalOperationRequest,
     DeleteGlobalOperationResponse |-> DeleteGlobalOperationResponse,
     GetGlobalOperationRequest |-> GetGlobalOperationRequest,
     ListGlobalOperationsRequest |-> ListGlobalOperationsRequest,
     WaitGlobalOperationRequest |-> WaitGlobalOperationRequest,
     DeleteGlobalOrganizationOperationRequest |-> DeleteGlobalOrganizationOperationRequest,
     DeleteGlobalOrganizationOperationResponse |-> DeleteGlobalOrganizationOperationResponse,
     GetGlobalOrganizationOperationRequest |-> GetGlobalOrganizationOperationRequest,
     ListGlobalOrganizationOperationsRequest |-> ListGlobalOrganizationOperationsRequest,
     Http |-> Http, HttpRule |-> HttpRule, CustomHttpPattern |-> CustomHttpPattern,
     FileDescriptorSet |-> FileDescriptorSet,
     FileDescriptorProto |-> FileDescriptorProto,
     DescriptorProto |-> DescriptorProto,
     DescriptorProto_ExtensionRange |-> DescriptorProto_ExtensionRange,
     DescriptorProto_ReservedRange |-> DescriptorProto_ReservedRange,
     ExtensionRangeOptions |-> ExtensionRangeOptions,
     FieldDescriptorProto |-> FieldDescriptorProto,
     FieldDescriptorProto_Type |-> FieldDescriptorProto_Type,
     FieldDescriptorProto_Label |-> FieldDescriptorProto_Label,
     OneofDescriptorProto |-> OneofDescriptorProto,
     EnumDescriptorProto |-> EnumDescriptorProto,
     EnumDescriptorProto_EnumReservedRange |-> EnumDescriptorProto_EnumReservedRange,
     EnumValueDescriptorProto |-> EnumValueDescriptorProto,
     ServiceDescriptorProto |-> ServiceDescriptorProto,
     MethodDescriptorProto |-> MethodDescriptorProto, FileOptions |-> FileOptions,
     FileOptions_OptimizeMode |-> FileOptions_OptimizeMode,
     MessageOptions |-> MessageOptions, FieldOptions |-> FieldOptions,
     FieldOptions_CType |-> FieldOptions_CType,
     FieldOptions_JSType |-> FieldOptions_JSType, OneofOptions |-> OneofOptions,
     EnumOptions |-> EnumOptions, EnumValueOptions |-> EnumValueOptions,
     ServiceOptions |-> ServiceOptions, MethodOptions |-> MethodOptions,
     MethodOptions_IdempotencyLevel |-> MethodOptions_IdempotencyLevel,
     UninterpretedOption |-> UninterpretedOption,
     UninterpretedOption_NamePart |-> UninterpretedOption_NamePart,
     SourceCodeInfo |-> SourceCodeInfo,
     SourceCodeInfo_Location |-> SourceCodeInfo_Location,
     GeneratedCodeInfo |-> GeneratedCodeInfo,
     GeneratedCodeInfo_Annotation |-> GeneratedCodeInfo_Annotation]

===============================================================================
